---------------------------- MODULE Spec2Model ----------------------------
(***************************************************************************)
(* Simulador SRTF + memoria de particiones fijas (MFT) con Best-Fit y      *)
(* swap: modelo del motor `Simulador` de simulador_motor.py, conducido por *)
(* `App.siguiente_tick` de gui.py.                                         *)
(*                                                                         *)
(* Un proceso es un objeto Proceso; aqui se lo identifica por su posicion  *)
(* en la lista `todos_procesos` (identidad de objeto), y `id_proceso` es   *)
(* un campo mas.  Las colas guardan esas posiciones.                       *)
(***************************************************************************)
EXTENDS Integers, Sequences, FiniteSets, TLC

VARIABLES
    pc,                        \* posicion dentro del constructor / de tick()
    reloj,                     \* Simulador.reloj
    todos_procesos,            \* los objetos Proceso (campos fijos y dinamicos)
    procesos_nuevos,           \* deque de NUEVOS
    cola_listos,               \* deque de LISTOS
    cola_listos_suspendidos,   \* deque de L/S
    proceso_en_ejecucion,      \* proceso en CPU, o Ninguno
    procesos_terminados,       \* lista de terminados
    procesos_reporte,          \* cohorte sobre la que se informa
    proceso_asignado,          \* particion -> proceso cargado, o Ninguno
    eventos,                   \* lista local `eventos` del tick en curso
    eventos_del_tick,          \* Simulador.eventos_del_tick
    raw,                       \* filas crudas del CSV leido (lector_csv)
    error_str                  \* errores/advertencias que devolvio el lector

vars == <<pc, reloj, todos_procesos, procesos_nuevos, cola_listos,
          cola_listos_suspendidos, proceso_en_ejecucion, procesos_terminados,
          procesos_reporte, proceso_asignado, eventos, eventos_del_tick,
          raw, error_str>>

\* lo que pertenece a la carga del CSV y el motor nunca toca
lector == <<raw, error_str>>

---------------------------------------------------------------------------
(* Cotas del modelo *)

\* cantidad maxima de filas del catalogo entregadas juntas al constructor
MaxProcs == 6

\* ultimo valor de reloj hasta el que se sigue llamando a tick()
MaxReloj == 7

\* ultimo valor de reloj hasta el que se sigue pulsando el boton Tick de la GUI
MaxRelojGUI == 502

\* cantidad maxima de filas validas que acompanan a una definicion invalida
MaxFilasBuenas == 2

\* cantidad maxima de filas de datos de un archivo CSV
MaxFilasCSV == 3

---------------------------------------------------------------------------
(* Constantes del programa *)

\* `None` en una referencia a Proceso
Ninguno == 0

\* `None` en Proceso.id_particion
SinParticion == -1

\* valor "sin fijar" de t_fin, t_primera_ejecucion y t_llegada_listo
SinFijar == -1

\* `None` en un indice de columna del lector de CSV
SinColumna == -1

\* tamano maximo de la cohorte: candidatos[:10]
TamCohorte == 10

\* grado de multiprogramacion del sistema (L/S + LISTO + EJECUCION)
GDMSistema == 5

\* grado de multiprogramacion en memoria (LISTO + EJECUCION)
GDMMemoria == 3

\* limite anti-loop del bucle de la version de consola: if self.reloj > 500
LimiteTiempo == 500

\* tamanos de las particiones 0..3 (la 0 es la del sistema operativo)
TamanosParticion == <<100, 250, 150, 50>>

IdsParticion == 0 .. 3

TamanoParticion(k) == TamanosParticion[k + 1]

EsSO(k) == k = 0

---------------------------------------------------------------------------
(* Utilidades sobre secuencias *)

Rango(s) == {s[i] : i \in 1 .. Len(s)}

\* comparacion lexicografica de tuplas de enteros de igual longitud (a < b)
RECURSIVE TuplaMenor(_, _)
TuplaMenor(a, b) ==
    IF Len(a) = 0 THEN FALSE
    ELSE IF Head(a) < Head(b) THEN TRUE
    ELSE IF Head(a) > Head(b) THEN FALSE
    ELSE TuplaMenor(Tail(a), Tail(b))


\* inserta x en la secuencia ordenada s, detras de los de clave menor o igual
RECURSIVE Insertar(_, _, _)
Insertar(s, x, clave) ==
    IF Len(s) = 0 THEN <<x>>
    ELSE IF TuplaMenor(clave[x], clave[Head(s)]) THEN <<x>> \o s
    ELSE <<Head(s)>> \o Insertar(Tail(s), x, clave)

\* sorted(s, key=clave): orden estable ascendente
RECURSIVE Ordenar(_, _)
Ordenar(s, clave) ==
    IF Len(s) = 0 THEN <<>>
    ELSE Insertar(Ordenar(SubSeq(s, 1, Len(s) - 1), clave), s[Len(s)], clave)

\* max(s, key=clave): el primer elemento de clave maxima (s no vacia)
RECURSIVE MaximoPor(_, _)
MaximoPor(s, clave) ==
    IF Len(s) = 1 THEN s[1]
    ELSE LET m == MaximoPor(SubSeq(s, 1, Len(s) - 1), clave)
         IN  IF TuplaMenor(clave[m], clave[s[Len(s)]]) THEN s[Len(s)] ELSE m

\* deque.remove(x): quita la primera aparicion de x
RECURSIVE QuitarPrimero(_, _)
QuitarPrimero(s, x) ==
    IF Len(s) = 0 THEN <<>>
    ELSE IF Head(s) = x THEN Tail(s)
    ELSE <<Head(s)>> \o QuitarPrimero(Tail(s), x)

---------------------------------------------------------------------------
(* Proceso y Particion *)

\* Proceso.__init__
Proceso(id, tam, ta, ti) ==
    [id_proceso |-> id, tamano |-> tam, t_arribo |-> ta, t_irrupcion |-> ti,
     estado |-> "NUEVO", t_restante |-> ti, id_particion |-> SinParticion,
     t_fin |-> SinFijar, t_primera_ejecucion |-> SinFijar,
     t_llegada_listo |-> SinFijar]

\* Particion.esta_libre
EstaLibre(asg, k) == asg[k] = Ninguno /\ ~EsSO(k)

\* Particion.fragmentacion_interna
FragmentacionInterna(tp, asg, k) ==
    IF asg[k] # Ninguno THEN TamanoParticion(k) - tp[asg[k]].tamano ELSE 0

\* variante defectuosa de AsignarProceso: carga la particion pero anota en el
\* proceso la particion siguiente
AsignarAnotandoOtra(tp, asg, k, h) ==
    IF EstaLibre(asg, k) /\ tp[h].tamano <= TamanoParticion(k)
    THEN [tp |-> [tp EXCEPT ![h].id_particion = IF k = 3 THEN 1 ELSE k + 1],
          asg |-> [asg EXCEPT ![k] = h]]
    ELSE [tp |-> tp, asg |-> asg]

\* Particion.asignar_proceso: deja el par (procesos, particiones) resultante
AsignarProceso(tp, asg, k, h) ==
    IF EstaLibre(asg, k) /\ tp[h].tamano <= TamanoParticion(k)
    THEN [tp |-> [tp EXCEPT ![h].id_particion = k], asg |-> [asg EXCEPT ![k] = h]]
    ELSE [tp |-> tp, asg |-> asg]

\* variante defectuosa de LiberarParticion: borra la referencia del proceso
\* pero deja la particion ocupada
LiberarSinVaciar(tp, asg, k) ==
    [tp  |-> IF asg[k] # Ninguno
             THEN [tp EXCEPT ![asg[k]].id_particion = SinParticion]
             ELSE tp,
     asg |-> asg]

\* variante defectuosa de LiberarParticion: vacia la particion sin borrar la
\* referencia id_particion del proceso que la ocupaba
LiberarSinDesvincular(tp, asg, k) == [tp |-> tp, asg |-> [asg EXCEPT ![k] = Ninguno]]

\* Particion.liberar_particion
LiberarParticion(tp, asg, k) ==
    [tp |-> IF asg[k] # Ninguno
            THEN [tp EXCEPT ![asg[k]].id_particion = SinParticion]
            ELSE tp,
     asg |-> [asg EXCEPT ![k] = Ninguno]]

---------------------------------------------------------------------------
(* Claves de ordenamiento *)

\* variante defectuosa de ClaveArribo: ordena solo por id
ClaveArriboSoloId(tp) == [h \in DOMAIN tp |-> <<tp[h].id_proceso>>]

\* key=lambda x: (x.t_arribo, x.id_proceso)
ClaveArribo(tp) == [h \in DOMAIN tp |-> <<tp[h].t_arribo, tp[h].id_proceso>>]

\* variante defectuosa de ClaveRestante: ordena por orden de arribo
ClaveRestantePorArribo(tp) ==
    [h \in DOMAIN tp |-> <<tp[h].t_arribo, tp[h].id_proceso>>]

\* key=lambda p: (p.t_restante, p.id_proceso)
ClaveRestante(tp) == [h \in DOMAIN tp |-> <<tp[h].t_restante, tp[h].id_proceso>>]

\* variante defectuosa de ClaveSRTF: ordena LISTOS por t_restante descendente
ClaveSRTFInvertida(tp) ==
    [h \in DOMAIN tp |-> <<0 - tp[h].t_restante, tp[h].t_llegada_listo, tp[h].id_proceso>>]

\* variante defectuosa de ClaveSRTF: ordena LISTOS solo por id
ClaveSRTFSoloId(tp) == [h \in DOMAIN tp |-> <<tp[h].id_proceso>>]

\* key=lambda p: (p.t_restante, p.t_llegada_listo, p.id_proceso)
ClaveSRTF(tp) ==
    [h \in DOMAIN tp |-> <<tp[h].t_restante, tp[h].t_llegada_listo, tp[h].id_proceso>>]

\* key=lambda p: p.id_proceso
ClaveId(tp) == [h \in DOMAIN tp |-> <<tp[h].id_proceso>>]

---------------------------------------------------------------------------
(* Funciones auxiliares del motor *)

\* Simulador._cabe_en_alguna_particion
CabeEnAlgunaParticion(tp, h) ==
    \E k \in IdsParticion : ~EsSO(k) /\ tp[h].tamano <= TamanoParticion(k)

\* el recorrido de _encontrar_mejor_particion: (mejor, menor_fi) tras ver `ks`;
\* menor_fi = inf se representa con mejor = SinParticion
RECURSIVE MejorDesde(_, _, _, _, _)
MejorDesde(tp, asg, h, ks, acc) ==
    IF Len(ks) = 0 THEN acc
    ELSE LET k  == Head(ks)
             fi == TamanoParticion(k) - tp[h].tamano
             toma ==
                 /\ EstaLibre(asg, k)
                 /\ tp[h].tamano <= TamanoParticion(k)
                 /\ \/ acc.mejor = SinParticion
                    \/ fi < acc.menor_fi
                    \/ fi = acc.menor_fi
                       /\ TamanoParticion(k) < TamanoParticion(acc.mejor)
         IN  MejorDesde(tp, asg, h, Tail(ks),
                        IF toma THEN [mejor |-> k, menor_fi |-> fi] ELSE acc)

\* variante defectuosa de EncontrarMejorParticion: First-Fit (la primera
\* particion libre donde cabe)
PrimerAjuste(tp, asg, h, particiones) ==
    LET caben == SelectSeq(particiones,
                     LAMBDA k : EstaLibre(asg, k) /\ tp[h].tamano <= TamanoParticion(k))
    IN  IF Len(caben) = 0 THEN SinParticion ELSE Head(caben)

\* variante defectuosa de EncontrarMejorParticion: Worst-Fit (la particion
\* libre donde cabe que deja la mayor fragmentacion)
PeorAjuste(tp, asg, h, particiones) ==
    LET caben == {k \in Rango(particiones) :
                     EstaLibre(asg, k) /\ tp[h].tamano <= TamanoParticion(k)}
    IN  IF caben = {} THEN SinParticion
        ELSE CHOOSE k \in caben :
                 \A j \in caben : TamanoParticion(j) <= TamanoParticion(k)

\* variante defectuosa de EncontrarMejorParticion: no compara el tamano del
\* proceso con el de la particion
AjusteSinTamano(tp, asg, h, particiones) ==
    LET libres == SelectSeq(particiones, LAMBDA k : EstaLibre(asg, k))
    IN  IF Len(libres) = 0 THEN SinParticion ELSE libres[Len(libres)]

\* Simulador._encontrar_mejor_particion (Best-Fit); SinParticion si no hay
EncontrarMejorParticion(tp, asg, h, particiones) ==
    MejorDesde(tp, asg, h, particiones, [mejor |-> SinParticion, menor_fi |-> 0]).mejor

\* libres = [pp for pp in self.particiones if pp.esta_libre]
Libres(asg) == SelectSeq(<<0, 1, 2, 3>>, LAMBDA k : EstaLibre(asg, k))

\* len(cola_listos) + (1 if proceso_en_ejecucion else 0)
ProcesosEnMemoria(listos, run) == Len(listos) + (IF run # Ninguno THEN 1 ELSE 0)

\* Simulador._encontrar_proceso_srtf: la cola LISTOS tal como queda (ordenada)
ListosOrdenados(tp, listos) == Ordenar(listos, ClaveSRTF(tp))

\* posibles_victimas: los de LISTOS y, al final, el que esta en CPU
PosiblesVictimas(listos, run) ==
    listos \o (IF run # Ninguno THEN <<run>> ELSE <<>>)

\* variante defectuosa de VictimasValidas: no mira si el candidato cabe en la
\* particion de la victima
VictimasValidasSinTamano(tp, listos, run, c) == PosiblesVictimas(listos, run)

\* victimas_validas: las que ocupan una particion donde cabe el candidato
VictimasValidas(tp, listos, run, c) ==
    SelectSeq(PosiblesVictimas(listos, run),
              LAMBDA v : TamanoParticion(tp[v].id_particion) >= tp[c].tamano)

\* variante defectuosa de Victima: elige la de menor t_restante
VictimaMasCorta(tp, listos, run, c) ==
    MaximoPor(VictimasValidas(tp, listos, run, c),
              [h \in DOMAIN tp |-> <<0 - tp[h].t_restante, tp[h].id_proceso>>])

\* variante defectuosa de Victima: ante igual t_restante elige el id menor
VictimaDeMenorId(tp, listos, run, c) ==
    MaximoPor(VictimasValidas(tp, listos, run, c),
              [h \in DOMAIN tp |-> <<tp[h].t_restante, 0 - tp[h].id_proceso>>])

\* victima = max(victimas_validas, key=(t_restante, id_proceso))
Victima(tp, listos, run, c) ==
    MaximoPor(VictimasValidas(tp, listos, run, c), ClaveRestante(tp))

\* rama "admision normal" del for: el candidato c entra por Best-Fit
HayAdmision(tp, asg, listos, run, c) ==
    /\ ProcesosEnMemoria(listos, run) < GDMMemoria
    /\ Len(Libres(asg)) > 0
    /\ EncontrarMejorParticion(tp, asg, c, Libres(asg)) # SinParticion

\* variante defectuosa de HaySwap: no compara los tiempos restantes
HaySwapSinComparar(tp, asg, listos, run, c) ==
    /\ ~(ProcesosEnMemoria(listos, run) < GDMMemoria /\ Len(Libres(asg)) > 0)
    /\ ProcesosEnMemoria(listos, run) = GDMMemoria
    /\ Len(VictimasValidas(tp, listos, run, c)) > 0

\* variante defectuosa de HaySwap: compara con <= en vez de <
HaySwapNoEstricto(tp, asg, listos, run, c) ==
    /\ ~(ProcesosEnMemoria(listos, run) < GDMMemoria /\ Len(Libres(asg)) > 0)
    /\ ProcesosEnMemoria(listos, run) = GDMMemoria
    /\ Len(VictimasValidas(tp, listos, run, c)) > 0
    /\ tp[c].t_restante <= tp[Victima(tp, listos, run, c)].t_restante

\* rama "swap" del for: el candidato c desaloja a la victima
HaySwap(tp, asg, listos, run, c) ==
    /\ ~(ProcesosEnMemoria(listos, run) < GDMMemoria /\ Len(Libres(asg)) > 0)
    /\ ProcesosEnMemoria(listos, run) = GDMMemoria
    /\ Len(VictimasValidas(tp, listos, run, c)) > 0
    /\ tp[c].t_restante < tp[Victima(tp, listos, run, c)].t_restante

\* variante defectuosa de LSTrasSwap: olvida encolar a la victima en L/S
LSTrasSwapSinVictima(ls, victima, candidato) == QuitarPrimero(ls, candidato)

\* la cola L/S tras un swap: ls.append(victima); ls.remove(candidato)
LSTrasSwap(ls, victima, candidato) ==
    QuitarPrimero(Append(ls, victima), candidato)

\* variante defectuosa de ListosTrasSwap: la victima no sale de LISTOS
ListosTrasSwapSinSacar(listos, run, victima, candidato) ==
    Append(listos, candidato)

\* la cola de listos tras un swap: si la victima no era el proceso en CPU se la
\* quita (cola_listos.remove(victima)); luego entra el candidato (append)
ListosTrasSwap(listos, run, victima, candidato) ==
    Append(IF victima = run THEN listos ELSE QuitarPrimero(listos, victima),
           candidato)

\* variante defectuosa de EntrarAListo: no renueva t_llegada_listo si ya
\* tenia uno
EntrarAListoSinRenovar(tp, h, r) ==
    [tp EXCEPT ![h].estado = "LISTO",
               ![h].t_llegada_listo = IF tp[h].t_llegada_listo = SinFijar THEN r
                                      ELSE tp[h].t_llegada_listo]

\* el proceso h entra a LISTO en el tick r: estado = "LISTO" y
\* t_llegada_listo = self.reloj (en la admision, en el swap y en el desalojo)
EntrarAListo(tp, h, r) ==
    [tp EXCEPT ![h].estado = "LISTO", ![h].t_llegada_listo = r]

\* variante defectuosa de Servir: descuenta tambien a los procesos de LISTOS
ServirAResidentes(tp, cur) ==
    [h \in DOMAIN tp |->
        IF h = cur \/ (tp[h].estado = "LISTO" /\ tp[h].t_restante > 1)
        THEN [tp[h] EXCEPT !.t_restante = tp[h].t_restante - 1]
        ELSE tp[h]]

\* variante defectuosa de Servir: descuenta dos unidades por tick
ServirDoble(tp, cur) == [tp EXCEPT ![cur].t_restante = tp[cur].t_restante - 2]

\* cur.t_restante -= 1
Servir(tp, cur) == [tp EXCEPT ![cur].t_restante = tp[cur].t_restante - 1]

\* variante defectuosa de DebeDesalojar: tambien desaloja con igual t_restante
DebeDesalojarConIgualRestante(tp, corto, run) ==
    /\ corto # Ninguno
    /\ tp[corto].t_restante <= tp[run].t_restante

\* la condicion de desalojo de _ejecutar_planificador
DebeDesalojar(tp, corto, run) ==
    /\ corto # Ninguno
    /\ \/ tp[corto].t_restante < tp[run].t_restante
       \/ /\ tp[corto].t_restante = tp[run].t_restante
          /\ tp[corto].t_llegada_listo < tp[run].t_llegada_listo

\* variante defectuosa de ConCambio: solo prueba con la cabeza de L/S
ConCambioSoloCabeza(tp, asg, listos, run, ls) ==
    {i \in 1 .. Len(ls) : /\ i = 1
                          /\ \/ HayAdmision(tp, asg, listos, run, ls[i])
                             \/ HaySwap(tp, asg, listos, run, ls[i])}

\* posiciones de `ls` cuyo candidato produce un cambio (admision o swap)
ConCambio(tp, asg, listos, run, ls) ==
    {i \in 1 .. Len(ls) : \/ HayAdmision(tp, asg, listos, run, ls[i])
                          \/ HaySwap(tp, asg, listos, run, ls[i])}

\* variante defectuosa de CuantosEntran: corta con un lugar de menos
RECURSIVE CuantosEntranConUnoMenos(_, _, _)
CuantosEntranConUnoMenos(nuevos, llega, gdm) ==
    IF Len(nuevos) > 0 /\ Head(nuevos) \in llega /\ gdm < GDMSistema - 1
    THEN 1 + CuantosEntranConUnoMenos(Tail(nuevos), llega, gdm + 1)
    ELSE 0

\* cuantos procesos saca de NUEVOS un `while nuevos and cond(nuevos[0]) and
\* gdm < 5`, con `llega` el conjunto de los que cumplen cond
RECURSIVE CuantosEntran(_, _, _)
CuantosEntran(nuevos, llega, gdm) ==
    IF Len(nuevos) > 0 /\ Head(nuevos) \in llega /\ gdm < GDMSistema
    THEN 1 + CuantosEntran(Tail(nuevos), llega, gdm + 1)
    ELSE 0

\* igual, sin tope de GDM: `while nuevos and nuevos[0].t_arribo == 0`
RECURSIVE CuantosArribanEnCero(_, _)
CuantosArribanEnCero(tp, nuevos) ==
    IF Len(nuevos) > 0 /\ tp[Head(nuevos)].t_arribo = 0
    THEN 1 + CuantosArribanEnCero(tp, Tail(nuevos))
    ELSE 0

\* variante defectuosa de PasarALS: los que arriban quedan marcados LISTO
PasarALSComoListos(tp, hs) ==
    [h \in DOMAIN tp |-> IF h \in Rango(hs) THEN [tp[h] EXCEPT !.estado = "LISTO"]
                         ELSE tp[h]]

\* pone estado = "L/S" a todos los de la secuencia hs
PasarALS(tp, hs) ==
    [h \in DOMAIN tp |-> IF h \in Rango(hs) THEN [tp[h] EXCEPT !.estado = "L/S"]
                         ELSE tp[h]]

\* max((p.tamano for p in self.particiones if not p.es_so), default=0)
MaxPart ==
    LET T == {TamanoParticion(k) : k \in {j \in IdsParticion : ~EsSO(j)}}
    IN  IF T = {} THEN 0 ELSE CHOOSE m \in T : \A t \in T : t <= m

\* variante defectuosa de IsRunning: cuenta a todo proceso de L/S, quepa o no
IsRunningConTodoLS(tp, nuevos, listos, ls, run) ==
    \/ run # Ninguno
    \/ Len(listos) > 0
    \/ /\ MaxPart # 0
       /\ \/ Len(ls) > 0
          \/ \E i \in 1 .. Len(nuevos) : tp[nuevos[i]].tamano <= MaxPart

\* variante defectuosa de IsRunning: no mira la cola de NUEVOS
IsRunningSinNuevos(tp, nuevos, listos, ls, run) ==
    \/ run # Ninguno
    \/ Len(listos) > 0
    \/ /\ MaxPart # 0
       /\ \E i \in 1 .. Len(ls) : tp[ls[i]].tamano <= MaxPart

\* Simulador.is_running
IsRunning(tp, nuevos, listos, ls, run) ==
    \/ run # Ninguno
    \/ Len(listos) > 0
    \/ /\ MaxPart # 0
       /\ \/ \E i \in 1 .. Len(ls) : tp[ls[i]].tamano <= MaxPart
          \/ \E i \in 1 .. Len(nuevos) : tp[nuevos[i]].tamano <= MaxPart

\* variante defectuosa de FilaReporte: la espera no descuenta el servicio
FilaReporteSinServicio(tp, h) ==
    IF tp[h].t_fin # SinFijar
    THEN LET T == tp[h].t_fin - tp[h].t_arribo
             R == tp[h].t_primera_ejecucion - tp[h].t_arribo
         IN  [marca |-> "metricas", pid |-> tp[h].id_proceso,
              arribo |-> tp[h].t_arribo,
              primera_cpu |-> tp[h].t_primera_ejecucion, fin |-> tp[h].t_fin,
              servicio |-> tp[h].t_irrupcion, espera |-> T, respuesta |-> R,
              retorno |-> T]
    ELSE [marca |-> "No admitido", pid |-> tp[h].id_proceso,
          arribo |-> tp[h].t_arribo, servicio |-> tp[h].t_irrupcion,
          tamano |-> tp[h].tamano]

\* una fila de Simulador.get_reporte_final: metricas de un terminado, o la
\* marca "No admitido" de un proceso en L/S que no cabe en ninguna particion
FilaReporte(tp, h) ==
    IF tp[h].t_fin # SinFijar
    THEN LET T == tp[h].t_fin - tp[h].t_arribo
             W == T - tp[h].t_irrupcion
             R == tp[h].t_primera_ejecucion - tp[h].t_arribo
         IN  [marca |-> "metricas", pid |-> tp[h].id_proceso,
              arribo |-> tp[h].t_arribo,
              primera_cpu |-> tp[h].t_primera_ejecucion, fin |-> tp[h].t_fin,
              servicio |-> tp[h].t_irrupcion, espera |-> W, respuesta |-> R,
              retorno |-> T]
    ELSE [marca |-> "No admitido", pid |-> tp[h].id_proceso,
          arribo |-> tp[h].t_arribo, servicio |-> tp[h].t_irrupcion,
          tamano |-> tp[h].tamano]

\* Simulador.get_reporte_final()["procesos"]: recorre procesos_reporte en orden
\* de id y deja una fila por terminado y una por no admitido
ReporteProcesos(tp, reporte) ==
    LET orden == Ordenar(reporte, ClaveId(tp))
        informados == SelectSeq(orden,
            LAMBDA h : \/ tp[h].t_fin # SinFijar
                       \/ tp[h].estado = "L/S" /\ ~CabeEnAlgunaParticion(tp, h))
    IN  [i \in 1 .. Len(informados) |-> FilaReporte(tp, informados[i])]

\* el diccionario que devuelve Simulador.get_reporte_final: las filas, la
\* cantidad de procesos con metricas y el reloj al momento de la consulta
ReporteFinal(tp, reporte, r) ==
    [procesos |-> ReporteProcesos(tp, reporte),
     procesos_contados |->
         Len(SelectSeq(reporte, LAMBDA h : tp[h].t_fin # SinFijar)),
     tiempo_final |-> r]

\* direcciones base de las particiones 0..3
BasesParticion == <<0, 100, 350, 500>>

\* get_info_particion de Simulador.get_datos_gui: lo que la GUI muestra de la
\* particion k (contenido y estado / fragmentacion interna)
InfoParticion(tp, asg, k) ==
    [id |-> k, base |-> BasesParticion[k + 1], tamano |-> TamanoParticion(k),
     contenido |-> IF EsSO(k) THEN <<"Sistema operativo">>
                   ELSE IF asg[k] # Ninguno
                        THEN <<"P", tp[asg[k]].id_proceso, tp[asg[k]].tamano>>
                        ELSE <<"-">>,
     estado |-> IF EsSO(k) THEN <<"FI", 0>>
                ELSE IF asg[k] # Ninguno
                     THEN <<"FI", FragmentacionInterna(tp, asg, k)>>
                     ELSE <<"Espacio Libre">>]

\* Simulador.get_datos_gui()["particiones"]
DatosGuiParticiones(tp, asg) == [i \in 1 .. 4 |-> InfoParticion(tp, asg, i - 1)]

---------------------------------------------------------------------------
(* Entradas: las listas de procesos que recibe el constructor *)

\* valores de tamano, arribo e irrupcion de las filas de prueba
Tamanos == <<200, 40, 300>>

Arribos == <<0, 1>>

Irrupciones == <<3, 1>>

\* el catalogo de filas: todas las combinaciones, numeradas con ids 1, 2, ...
\* (el arribo es el indice que varia mas rapido, luego el tamano)
NumFilas == Len(Tamanos) * Len(Arribos) * Len(Irrupciones)

Fila(id) ==
    LET n == id - 1
    IN  Proceso(id,
                Tamanos[((n \div Len(Arribos)) % Len(Tamanos)) + 1],
                Arribos[(n % Len(Arribos)) + 1],
                Irrupciones[(n \div (Len(Arribos) * Len(Tamanos))) + 1])

\* los elementos de un conjunto de enteros, en orden ascendente
RECURSIVE EnOrden(_)
EnOrden(S) ==
    IF S = {} THEN <<>>
    ELSE LET m == CHOOSE x \in S : \A y \in S : x <= y
         IN  <<m>> \o EnOrden(S \ {m})

\* la lista de objetos Proceso construida con las filas de ids en S
ListaDe(S) == LET ids == EnOrden(S) IN [i \in 1 .. Len(ids) |-> Fila(ids[i])]

\* el escenario de la especificacion: P1(120 KB, TA 0, TI 5), P2(40 KB, TA 0, TI 3)
EscenarioBestFit == <<Proceso(1, 120, 0, 5), Proceso(2, 40, 0, 3)>>

\* cinco procesos de 300 KB (no caben en ninguna particion) que arriban en
\* t = 0 y uno de 40 KB que arriba en t = 1
EscenarioBloqueo ==
    <<Proceso(1, 300, 0, 1), Proceso(2, 300, 0, 1), Proceso(3, 300, 0, 1),
      Proceso(4, 300, 0, 1), Proceso(5, 300, 0, 1), Proceso(6, 40, 1, 1)>>

\* el catalogo entero: mas definiciones (12) que el tamano de la cohorte (10)
EscenarioCatalogo == ListaDe(1 .. NumFilas)

\* llegadas que chocan con el GDM del sistema: cinco procesos en t = 0 (uno
\* que no cabe en ninguna particion), dos en t = 1 y uno en t = 2
EscenarioTardios ==
    <<Proceso(1, 40, 0, 1), Proceso(2, 40, 0, 3), Proceso(3, 40, 0, 3),
      Proceso(4, 300, 0, 1), Proceso(5, 40, 0, 3), Proceso(6, 40, 1, 1),
      Proceso(7, 40, 1, 1), Proceso(8, 40, 2, 1)>>

\* memoria llena de procesos largos cuando arriban juntos uno corto que no
\* cabe en ninguna particion, uno corto que cabe en todas y uno que solo cabe
\* en la mayor
EscenarioSwap ==
    <<Proceso(1, 40, 0, 5), Proceso(2, 40, 0, 5), Proceso(3, 40, 0, 5),
      Proceso(4, 300, 1, 1), Proceso(5, 40, 1, 1), Proceso(6, 200, 1, 2)>>

\* un proceso en CPU al que, tras un tick de servicio, le quedan dos unidades
\* cuando arriban dos procesos de dos unidades
EscenarioEmpate ==
    <<Proceso(1, 40, 0, 3), Proceso(2, 40, 1, 2), Proceso(3, 40, 1, 2)>>

\* listas validas (ids positivos y distintos, campos en dominio): hasta
\* MaxProcs filas del catalogo, y los escenarios
Entradas ==
    {ListaDe(S) : S \in {T \in SUBSET (1 .. NumFilas) :
                            Cardinality(T) >= 1 /\ Cardinality(T) <= MaxProcs}}
    \cup {EscenarioBestFit, EscenarioBloqueo, EscenarioCatalogo,
          EscenarioTardios, EscenarioSwap, EscenarioEmpate}

\* las reglas de una lista de definiciones valida, las que aplica el lector de
\* CSV: id > 0 y no repetido, tamano > 0, arribo >= 0, irrupcion > 0
EsValida(lista) ==
    /\ \A i \in 1 .. Len(lista) :
          /\ lista[i].id_proceso > 0
          /\ lista[i].tamano > 0
          /\ lista[i].t_arribo >= 0
          /\ lista[i].t_irrupcion > 0
    /\ \A i, j \in 1 .. Len(lista) :
          lista[i].id_proceso = lista[j].id_proceso => i = j

\* definiciones invalidas: id no positivo, tamano 0, arribo negativo, irrupcion 0
FilasInvalidas ==
    <<Proceso(0, 40, 0, 1), Proceso(20, 0, 0, 1), Proceso(20, 40, -1, 1),
      Proceso(20, 40, 0, 0)>>

\* listas con una definicion invalida o con un id repetido: hasta
\* MaxFilasBuenas filas del catalogo seguidas de una fila invalida, o de otra
\* definicion con el id de la primera
EntradasInvalidas ==
    LET buenas == {ListaDe(S) : S \in {T \in SUBSET (1 .. NumFilas) :
                       Cardinality(T) >= 1 /\ Cardinality(T) <= MaxFilasBuenas}}
    IN  {Append(b, FilasInvalidas[i]) : b \in buenas, i \in 1 .. Len(FilasInvalidas)}
        \cup {Append(b, Proceso(b[1].id_proceso, 40, 0, 2)) : b \in buenas}

---------------------------------------------------------------------------
(* Estado inicial: Simulador.__init__ hasta antes de _preparar_colas *)

Init ==
    /\ pc = "preparar_colas"
    /\ raw = <<>>
    /\ error_str = <<>>
    /\ reloj = 0
    /\ todos_procesos \in Entradas
    /\ procesos_nuevos = <<>>
    /\ cola_listos = <<>>
    /\ cola_listos_suspendidos = <<>>
    /\ proceso_en_ejecucion = Ninguno
    /\ procesos_terminados = <<>>
    /\ procesos_reporte = <<>>
    /\ proceso_asignado = [k \in IdsParticion |-> Ninguno]
    /\ eventos = <<>>
    /\ eventos_del_tick = <<>>

---------------------------------------------------------------------------
(* Acciones *)

\* variante defectuosa de Seleccion: toma las primeras 10 definiciones tal como
\* vienen, sin ordenarlas por (arribo, id)
SeleccionSinOrdenar(tp) ==
    SubSeq([i \in 1 .. Len(tp) |-> i], 1,
           IF Len(tp) < TamCohorte THEN Len(tp) ELSE TamCohorte)

\* seleccion = sorted(todos, key=(t_arribo, id))[:10]
Seleccion(tp) ==
    LET candidatos == Ordenar([i \in 1 .. Len(tp) |-> i], ClaveArribo(tp))
    IN  SubSeq(candidatos, 1, IF Len(candidatos) < TamCohorte
                              THEN Len(candidatos) ELSE TamCohorte)

\* Simulador._preparar_colas
PrepararColas ==
    /\ pc = "preparar_colas"
    /\ UNCHANGED lector
    /\ LET seleccion == Seleccion(todos_procesos)
       IN  /\ todos_procesos' =
                 [h \in DOMAIN todos_procesos |->
                     IF h \in Rango(seleccion)
                     THEN [todos_procesos[h] EXCEPT
                              !.estado = "NUEVO",
                              !.t_restante = todos_procesos[h].t_irrupcion,
                              !.id_particion = SinParticion,
                              !.t_fin = SinFijar,
                              !.t_primera_ejecucion = SinFijar,
                              !.t_llegada_listo = SinFijar]
                     ELSE todos_procesos[h]]
           /\ procesos_nuevos' = seleccion
           /\ procesos_reporte' = seleccion
    /\ pc' = "estado_inicial"
    /\ UNCHANGED <<reloj, cola_listos, cola_listos_suspendidos,
                   proceso_en_ejecucion, procesos_terminados, proceso_asignado,
                   eventos, eventos_del_tick>>

\* Simulador._guardar_estado_inicial, hasta antes de _intentar_admision:
\* los arribos de t = 0 pasan a L/S
GuardarEstadoInicial ==
    /\ pc = "estado_inicial"
    /\ UNCHANGED lector
    /\ LET n == CuantosArribanEnCero(todos_procesos, procesos_nuevos)
           arribados == SubSeq(procesos_nuevos, 1, n)
           no_caben == SelectSeq(arribados,
                           LAMBDA h : ~CabeEnAlgunaParticion(todos_procesos, h))
       IN  /\ procesos_nuevos' = SubSeq(procesos_nuevos, n + 1, Len(procesos_nuevos))
           /\ todos_procesos' = PasarALS(todos_procesos, arribados)
           /\ cola_listos_suspendidos' = cola_listos_suspendidos \o arribados
           /\ eventos' =
                 (IF n > 0 THEN <<[tipo |-> "Arriban", procesos |-> arribados]>>
                  ELSE <<>>)
                 \o [i \in 1 .. Len(no_caben) |->
                        [tipo |-> "NoCabe", procesos |-> <<no_caben[i]>>]]
    /\ pc' = "admision"
    /\ UNCHANGED <<reloj, cola_listos, proceso_en_ejecucion, procesos_terminados,
                   procesos_reporte, proceso_asignado, eventos_del_tick>>

\* Una vuelta del `while True` de Simulador._intentar_admision: ordena L/S,
\* recorre los candidatos y ejecuta el primer cambio (admision normal o swap);
\* si ninguno cambia nada, el bucle termina y sigue el planificador.
IntentarAdmision ==
    /\ pc = "admision"
    /\ UNCHANGED lector
    /\ LET tp  == todos_procesos
           asg == proceso_asignado
           run == proceso_en_ejecucion
           ls  == Ordenar(cola_listos_suspendidos, ClaveRestante(tp))
           cambian == ConCambio(tp, asg, cola_listos, run, ls)
       IN  IF cambian = {}
           THEN \* hubo_cambio = False: break
                /\ cola_listos_suspendidos' = ls
                /\ pc' = "planificador"
                /\ UNCHANGED <<todos_procesos, cola_listos, proceso_en_ejecucion,
                               proceso_asignado, eventos>>
           ELSE LET i == CHOOSE j \in cambian : \A m \in cambian : j <= m
                    candidato == ls[i]
                IN  IF HayAdmision(tp, asg, cola_listos, run, candidato)
                    THEN \* admision normal por Best-Fit
                         LET mejor_part ==
                                 EncontrarMejorParticion(tp, asg, candidato, Libres(asg))
                             a == AsignarProceso(tp, asg, mejor_part, candidato)
                         IN  /\ cola_listos_suspendidos' = QuitarPrimero(ls, candidato)
                             /\ todos_procesos' =
                                   EntrarAListo(a.tp, candidato, reloj)
                             /\ proceso_asignado' = a.asg
                             /\ cola_listos' = Append(cola_listos, candidato)
                             /\ eventos' = Append(eventos,
                                   [tipo |-> "Admision", procesos |-> <<candidato>>,
                                    particion |-> mejor_part,
                                    fi |-> FragmentacionInterna(a.tp, a.asg, mejor_part)])
                             /\ pc' = "admision"
                             /\ UNCHANGED proceso_en_ejecucion
                    ELSE \* swap: sale la victima, entra el candidato
                         LET victima == Victima(tp, cola_listos, run, candidato)
                             part_victima == tp[victima].id_particion
                             tp1 == [tp EXCEPT ![victima].estado = "L/S",
                                               ![victima].id_particion = SinParticion]
                             l == LiberarParticion(tp1, asg, part_victima)
                             a == AsignarProceso(l.tp, l.asg, part_victima, candidato)
                         IN  /\ proceso_en_ejecucion' =
                                   IF victima = run THEN Ninguno ELSE run
                             /\ cola_listos' =
                                   ListosTrasSwap(cola_listos, run, victima, candidato)
                             /\ cola_listos_suspendidos' =
                                   LSTrasSwap(ls, victima, candidato)
                             /\ todos_procesos' =
                                   EntrarAListo(a.tp, candidato, reloj)
                             /\ proceso_asignado' = a.asg
                             /\ eventos' = Append(eventos,
                                   [tipo |-> "Swap", procesos |-> <<victima, candidato>>,
                                    particion |-> part_victima])
                             /\ pc' = "admision"
    /\ UNCHANGED <<reloj, procesos_nuevos, procesos_terminados, procesos_reporte,
                   eventos_del_tick>>

\* Simulador._ejecutar_planificador (SRTF con desalojo) y el cierre del tick:
\* self.eventos_del_tick = eventos
EjecutarPlanificador ==
    /\ pc = "planificador"
    /\ UNCHANGED lector
    /\ LET tp     == todos_procesos
           run    == proceso_en_ejecucion
           listos == ListosOrdenados(tp, cola_listos)
           corto  == IF Len(cola_listos) = 0 THEN Ninguno ELSE listos[1]
       IN  IF run = Ninguno
           THEN IF corto # Ninguno
                THEN \* CPU libre: entra el primero de LISTOS
                     /\ proceso_en_ejecucion' = corto
                     /\ cola_listos' = Tail(listos)
                     /\ todos_procesos' =
                           [tp EXCEPT ![corto].estado = "EJECUCION",
                                      ![corto].t_primera_ejecucion =
                                          IF tp[corto].t_primera_ejecucion = SinFijar
                                          THEN reloj
                                          ELSE tp[corto].t_primera_ejecucion]
                     /\ eventos_del_tick' =
                           Append(eventos, [tipo |-> "Inicia", procesos |-> <<corto>>])
                ELSE /\ UNCHANGED <<proceso_en_ejecucion, todos_procesos>>
                     /\ cola_listos' = listos
                     /\ eventos_del_tick' = eventos
           ELSE IF DebeDesalojar(tp, corto, run)
                THEN \* desalojo
                     LET sal == run
                         tp1 == EntrarAListo(tp, sal, reloj)
                         reordenada == Ordenar(Append(listos, sal), ClaveSRTF(tp1))
                         ent == Head(reordenada)
                     IN  /\ proceso_en_ejecucion' = ent
                         /\ cola_listos' = Tail(reordenada)
                         /\ todos_procesos' =
                               [tp1 EXCEPT ![ent].estado = "EJECUCION",
                                           ![ent].t_primera_ejecucion =
                                               IF tp1[ent].t_primera_ejecucion = SinFijar
                                               THEN reloj
                                               ELSE tp1[ent].t_primera_ejecucion]
                         /\ eventos_del_tick' =
                               Append(eventos,
                                      [tipo |-> "Desalojo", procesos |-> <<sal, ent>>])
                ELSE /\ UNCHANGED <<proceso_en_ejecucion, todos_procesos>>
                     /\ cola_listos' = listos
                     /\ eventos_del_tick' = eventos
    /\ eventos' = <<>>
    /\ pc' = "reposo"
    /\ UNCHANGED <<reloj, procesos_nuevos, cola_listos_suspendidos,
                   procesos_terminados, procesos_reporte, proceso_asignado>>

\* variante defectuosa de AvanzarReloj: el primer tick se procesa en 1 y los
\* siguientes saltan de a dos unidades
AvanzarRelojSalteado(r) == IF r = 0 THEN 1 ELSE r + 2

\* App.siguiente_tick, ajuste del reloj antes de llamar a tick(): empieza en 1
\* si estaba en 0, luego se incrementa
AvanzarReloj(r) == IF r = 0 THEN 1 ELSE r + 1

\* El avance del reloj de App.siguiente_tick y la fase 1 de Simulador.tick: la
\* CPU atiende una unidad al proceso en ejecucion y, si llega a 0, lo termina
FaseCPU ==
    /\ pc = "reposo"
    /\ UNCHANGED lector
    /\ reloj' = AvanzarReloj(reloj)
    /\ eventos_del_tick' = <<>>
    /\ IF proceso_en_ejecucion # Ninguno
       THEN LET cur == proceso_en_ejecucion
                tp1 == Servir(todos_procesos, cur)
            IN  IF tp1[cur].t_restante = 0
                THEN LET tp2 == [tp1 EXCEPT ![cur].estado = "TERMINADO",
                                            ![cur].t_fin = reloj' + 1]
                         part == tp2[cur].id_particion
                         l == LiberarParticion(tp2, proceso_asignado, part)
                     IN  /\ todos_procesos' = l.tp
                         /\ proceso_asignado' = l.asg
                         /\ procesos_terminados' = Append(procesos_terminados, cur)
                         /\ proceso_en_ejecucion' = Ninguno
                         /\ eventos' = <<[tipo |-> "Termina", procesos |-> <<cur>>,
                                          particion |-> part]>>
                ELSE /\ todos_procesos' = tp1
                     /\ eventos' = <<>>
                     /\ UNCHANGED <<proceso_asignado, procesos_terminados,
                                    proceso_en_ejecucion>>
       ELSE /\ eventos' = <<>>
            /\ UNCHANGED <<todos_procesos, proceso_asignado, procesos_terminados,
                           proceso_en_ejecucion>>
    /\ pc' = "llegadas"
    /\ UNCHANGED <<procesos_nuevos, cola_listos, cola_listos_suspendidos,
                   procesos_reporte>>

\* tick() llamado por cualquier cliente del motor, haya terminado o no la
\* simulacion, hasta que el reloj llega a MaxReloj
TickCPU == reloj < MaxReloj /\ FaseCPU

\* App.siguiente_tick pulsado desde el boton Tick: el boton queda habilitado al
\* cargar la simulacion y se deshabilita (finalizar_simulacion) cuando, tras un
\* tick, is_running() es falso
SiguienteTick ==
    /\ reloj < MaxRelojGUI
    /\ \/ reloj = 0
       \/ IsRunning(todos_procesos, procesos_nuevos, cola_listos,
                    cola_listos_suspendidos, proceso_en_ejecucion)
    /\ FaseCPU

\* Fase 2 de Simulador.tick: llegadas al sistema respetando el GDM del sistema
TickLlegadas ==
    /\ pc = "llegadas"
    /\ UNCHANGED lector
    /\ LET tp == todos_procesos
           gdm_actual == Len(cola_listos) + Len(cola_listos_suspendidos)
                         + (IF proceso_en_ejecucion # Ninguno THEN 1 ELSE 0)
           recien_arriban == SelectSeq(procesos_nuevos,
                                 LAMBDA h : tp[h].t_arribo = reloj)
           n1 == CuantosEntran(procesos_nuevos,
                               {h \in DOMAIN tp : tp[h].t_arribo = reloj}, gdm_actual)
           puntuales == SubSeq(procesos_nuevos, 1, n1)
           resto1 == SubSeq(procesos_nuevos, n1 + 1, Len(procesos_nuevos))
           movidos_ids == {tp[h].id_proceso : h \in Rango(puntuales)}
           rechazados == SelectSeq(recien_arriban,
                             LAMBDA h : tp[h].id_proceso \notin movidos_ids)
           n2 == CuantosEntran(resto1,
                               {h \in DOMAIN tp : tp[h].t_arribo < reloj},
                               gdm_actual + n1)
           atrasados == SubSeq(resto1, 1, n2)
           arribados_a_ls == puntuales \o atrasados
       IN  /\ procesos_nuevos' = SubSeq(resto1, n2 + 1, Len(resto1))
           /\ todos_procesos' = PasarALS(tp, arribados_a_ls)
           /\ cola_listos_suspendidos' = cola_listos_suspendidos \o arribados_a_ls
           /\ eventos' = eventos
                 \o (IF n1 > 0
                     THEN <<[tipo |-> "ArribanAlSistema", procesos |-> puntuales]>>
                     ELSE <<>>)
                 \o (IF Len(rechazados) > 0
                     THEN <<[tipo |-> "GDMLleno", procesos |-> rechazados]>>
                     ELSE <<>>)
    /\ pc' = "admision"
    /\ UNCHANGED <<reloj, cola_listos, proceso_en_ejecucion, procesos_terminados,
                   procesos_reporte, proceso_asignado, eventos_del_tick>>

---------------------------------------------------------------------------
(* Especificacion *)

Next ==
    \/ PrepararColas
    \/ GuardarEstadoInicial
    \/ IntentarAdmision
    \/ EjecutarPlanificador
    \/ TickCPU
    \/ TickLlegadas

Spec == Init /\ [][Next]_vars

\* El constructor llamado directamente con una lista que el lector de CSV no
\* filtro: Simulador.__init__ no revisa las definiciones
InitSinValidar ==
    /\ pc = "preparar_colas"
    /\ raw = <<>>
    /\ error_str = <<>>
    /\ reloj = 0
    /\ todos_procesos \in EntradasInvalidas
    /\ procesos_nuevos = <<>>
    /\ cola_listos = <<>>
    /\ cola_listos_suspendidos = <<>>
    /\ proceso_en_ejecucion = Ninguno
    /\ procesos_terminados = <<>>
    /\ procesos_reporte = <<>>
    /\ proceso_asignado = [k \in IdsParticion |-> Ninguno]
    /\ eventos = <<>>
    /\ eventos_del_tick = <<>>

SpecSinValidar == InitSinValidar /\ [][Next]_vars

\* La GUI antes de cargar un archivo: todavia no hay simulador
InitGUI ==
    /\ pc = "sin_simulador"
    /\ raw = <<>>
    /\ error_str = <<>>
    /\ reloj = 0
    /\ todos_procesos = <<>>
    /\ procesos_nuevos = <<>>
    /\ cola_listos = <<>>
    /\ cola_listos_suspendidos = <<>>
    /\ proceso_en_ejecucion = Ninguno
    /\ procesos_terminados = <<>>
    /\ procesos_reporte = <<>>
    /\ proceso_asignado = [k \in IdsParticion |-> Ninguno]
    /\ eventos = <<>>
    /\ eventos_del_tick = <<>>

\* App.cargar_csv: con la lista de procesos validos leida del archivo crea el
\* motor, self.simulador = Simulador(procesos)
CargarProcesos ==
    /\ pc = "sin_simulador"
    /\ UNCHANGED lector
    /\ todos_procesos' \in Entradas
    /\ pc' = "preparar_colas"
    /\ UNCHANGED <<reloj, procesos_nuevos, cola_listos, cola_listos_suspendidos,
                   proceso_en_ejecucion, procesos_terminados, procesos_reporte,
                   proceso_asignado, eventos, eventos_del_tick>>

\* El motor conducido por la GUI: el usuario pulsa Tick una y otra vez mientras
\* el boton esta habilitado
NextGUI ==
    \/ CargarProcesos
    \/ PrepararColas
    \/ GuardarEstadoInicial
    \/ IntentarAdmision
    \/ EjecutarPlanificador
    \/ SiguienteTick
    \/ TickLlegadas

SpecGUI == InitGUI /\ [][NextGUI]_vars

\* Simulador.get_datos_gui llamado entre dos ticks: arma el snapshot a partir
\* del estado y no escribe ningun atributo del simulador
GetDatosGui ==
    /\ pc = "reposo"
    /\ UNCHANGED vars

\* variante defectuosa de GetReporteFinal: ademas ordena por id la lista de
\* terminados
GetReporteFinalOrdenaTerminados ==
    /\ pc = "reposo"
    /\ UNCHANGED lector
    /\ procesos_reporte' = Ordenar(procesos_reporte, ClaveId(todos_procesos))
    /\ procesos_terminados' = Ordenar(procesos_terminados, ClaveId(todos_procesos))
    /\ UNCHANGED <<pc, reloj, todos_procesos, procesos_nuevos, cola_listos,
                   cola_listos_suspendidos, proceso_en_ejecucion,
                   proceso_asignado, eventos, eventos_del_tick>>

\* Simulador.get_reporte_final llamado entre dos ticks: ordena procesos_reporte
\* por id en el lugar (self.procesos_reporte.sort) y arma el informe
GetReporteFinal ==
    /\ pc = "reposo"
    /\ UNCHANGED lector
    /\ procesos_reporte' = Ordenar(procesos_reporte, ClaveId(todos_procesos))
    /\ UNCHANGED <<pc, reloj, todos_procesos, procesos_nuevos, cola_listos,
                   cola_listos_suspendidos, proceso_en_ejecucion,
                   procesos_terminados, proceso_asignado, eventos,
                   eventos_del_tick>>

\* El motor con sus consultas: entre dos ticks se puede pedir el snapshot o el
\* informe cualquier cantidad de veces
NextConsultas ==
    \/ PrepararColas
    \/ GuardarEstadoInicial
    \/ IntentarAdmision
    \/ EjecutarPlanificador
    \/ TickCPU
    \/ TickLlegadas
    \/ GetDatosGui
    \/ GetReporteFinal

SpecConsultas == Init /\ [][NextConsultas]_vars

---------------------------------------------------------------------------
(* Lector de CSV: lector_csv._parsear_csv_data y App.cargar_csv *)

\* una celda del CSV ya sin espacios alrededor (strip): un entero que int()
\* acepta, o un texto que int() rechaza (el texto vacio incluido)
Ent(n) == [tipo |-> "entero", n |-> n, s |-> ""]

Txt(t) == [tipo |-> "texto", n |-> 0, s |-> t]

Vacia == Txt("")

\* is_int
EsEntero(c) == c.tipo = "entero"

\* _norm sobre los encabezados que usan las entradas: mayusculas (los espacios
\* ya fueron quitados); un texto que no es nombre de campo queda como esta
Norm(t) ==
    CASE t = "id" -> "ID"
      [] t = "pid" -> "PID"
      [] t = "tam" -> "TAM"
      [] t = "size" -> "SIZE"
      [] t = "ta" -> "TA"
      [] t = "llegada" -> "LLEGADA"
      [] t = "ti" -> "TI"
      [] t = "burst" -> "BURST"
      [] OTHER -> t

\* nombres aceptados para cada campo
IDN == {"ID", "IDP", "PID"}

TAMN == {"TAMANO", "TAMANIO", "TAM", "SIZE", "TAMM"}

TAN == {"TA", "ARRIBO", "LLEGADA"}

TIN == {"TI", "IRRUPCION", "IRRUPCIONCPU", "BURST", "CPU", "SERVICIO", "DURACION"}

\* el encabezado normalizado de una celda de la primera fila (una celda entera
\* no es nombre de ningun campo)
Encabezado(c) == IF EsEntero(c) THEN "#" ELSE Norm(c.s)

\* first_is_data
PrimeraEsDatos(first) ==
    Len(first) >= 4 /\ \A i \in 1 .. 4 : EsEntero(first[i])

\* indice (desde 0) del primer encabezado que esta en `nombres`, o SinColumna
IndiceDe(headers, nombres) ==
    LET I == {i \in 1 .. Len(headers) : headers[i] \in nombres}
    IN  IF I = {} THEN SinColumna
        ELSE (CHOOSE i \in I : \A j \in I : i <= j) - 1

\* orden fijo ID, TAM, TA, TI
OrdenFijo == [id |-> 0, tam |-> 1, ta |-> 2, ti |-> 3]

\* indices de columna, desde que fila hay datos y numero de la primera linea
\* de datos (id_idx, tam_idx, ta_idx, ti_idx, data_rows, start_line)
Columnas(first) ==
    IF PrimeraEsDatos(first)
    THEN [idx |-> OrdenFijo, desde |-> 1, start_line |-> 1]
    ELSE LET headers == [i \in 1 .. Len(first) |-> Encabezado(first[i])]
             c == [id |-> IndiceDe(headers, IDN), tam |-> IndiceDe(headers, TAMN),
                   ta |-> IndiceDe(headers, TAN), ti |-> IndiceDe(headers, TIN)]
         IN  [idx |-> IF SinColumna \in {c.id, c.tam, c.ta, c.ti} /\ Len(first) >= 4
                      THEN OrdenFijo ELSE c,
              desde |-> 2, start_line |-> 2]

\* get(i): la celda de la columna i, o vacia si el indice no sirve
Get(row, i) == IF i = SinColumna \/ i >= Len(row) THEN Vacia ELSE row[i + 1]

\* los motivos de rechazo de una fila ya convertida a enteros
Motivos(pid, tam, ta, ti, ids_vistos) ==
    (IF pid <= 0 THEN <<"ID debe ser positivo">> ELSE <<>>)
    \o (IF pid \in ids_vistos THEN <<"ID duplicado">> ELSE <<>>)
    \o (IF tam <= 0 THEN <<"TAMANO debe ser > 0">> ELSE <<>>)
    \o (IF ta < 0 THEN <<"TA no puede ser negativo">> ELSE <<>>)
    \o (IF ti <= 0 THEN <<"TI debe ser > 0">> ELSE <<>>)

\* una vuelta del for sobre data_rows: la fila `row` de la linea `off`
ProcesarFila(acc, row, off, idx) ==
    LET sid  == Get(row, idx.id)
        stam == Get(row, idx.tam)
        sta  == Get(row, idx.ta)
        sti  == Get(row, idx.ti)
    IN  IF sid = Vacia /\ stam = Vacia /\ sta = Vacia /\ sti = Vacia
        THEN acc
        ELSE IF ~(EsEntero(sid) /\ EsEntero(stam) /\ EsEntero(sta) /\ EsEntero(sti))
        THEN [acc EXCEPT !.errores =
                 Append(@, [fila |-> off, id |-> <<>>,
                            motivos |-> <<"valores no son enteros">>])]
        ELSE LET motivos == Motivos(sid.n, stam.n, sta.n, sti.n, acc.ids_vistos)
             IN  IF motivos # <<>>
                 THEN [acc EXCEPT !.errores =
                          Append(@, [fila |-> off, id |-> <<sid.n>>,
                                     motivos |-> motivos])]
                 ELSE [acc EXCEPT
                          !.ids_vistos = @ \cup {sid.n},
                          !.procs = Append(@, Proceso(sid.n, stam.n, sta.n, sti.n))]

\* el for completo sobre las filas desde la posicion k
RECURSIVE ProcesarFilas(_, _, _, _, _)
ProcesarFilas(acc, filas, k, off, idx) ==
    IF k > Len(filas) THEN acc
    ELSE ProcesarFilas(ProcesarFila(acc, filas[k], off, idx), filas, k + 1,
                       off + 1, idx)

\* _parsear_csv_data(raw): (procesos validos, errores); sin errores el mensaje
\* es vacio
ParsearCsvData(filas) ==
    IF filas = <<>>
    THEN [procs |-> <<>>,
          errores |-> <<[fila |-> 0, id |-> <<>>,
                         motivos |-> <<"Archivo CSV vacio.">>]>>]
    ELSE LET col == Columnas(filas[1])
             acc == ProcesarFilas([procs |-> <<>>, ids_vistos |-> {},
                                   errores |-> <<>>],
                                  filas, col.desde, col.start_line, col.idx)
         IN  [procs |-> acc.procs, errores |-> acc.errores]

\* filas de datos para los archivos de entrada, en el orden ID, TAM, TA, TI:
\* validas, con ID repetido, con cada defecto de dominio, con texto, en
\* blanco, con una celda de menos y con todo en una sola celda (archivo
\* separado por punto y coma)
FilasCSV ==
    << <<Ent(1), Ent(40), Ent(0), Ent(2)>>,
       <<Ent(2), Ent(300), Ent(1), Ent(1)>>,
       <<Ent(1), Ent(100), Ent(2), Ent(1)>>,
       <<Ent(0), Ent(40), Ent(0), Ent(1)>>,
       <<Ent(2), Ent(0), Ent(0), Ent(1)>>,
       <<Ent(3), Ent(40), Ent(-1), Ent(1)>>,
       <<Ent(3), Ent(40), Ent(0), Ent(0)>>,
       <<Ent(3), Txt("x"), Ent(0), Ent(1)>>,
       <<Vacia, Vacia, Vacia, Vacia>>,
       <<Ent(3), Ent(40), Ent(0)>>,
       <<Txt("1;40;0;2")>> >>

\* encabezados de los archivos de entrada, cada uno con el orden en que sus
\* columnas guardan los campos (1 = ID, 2 = TAM, 3 = TA, 4 = TI); el primero
\* es "sin encabezado"
EncabezadosCSV ==
    << [fila |-> <<>>, orden |-> <<1, 2, 3, 4>>],
       [fila |-> <<Txt("id"), Txt("tam"), Txt("ta"), Txt("ti")>>,
        orden |-> <<1, 2, 3, 4>>],
       [fila |-> <<Txt("size"), Txt("pid"), Txt("burst"), Txt("llegada")>>,
        orden |-> <<2, 1, 4, 3>>],
       [fila |-> <<Txt("proceso"), Txt("memoria"), Txt("inicio"), Txt("cpu0")>>,
        orden |-> <<1, 2, 3, 4>>],
       [fila |-> <<Txt("id"), Txt("tam"), Txt("ta")>>,
        orden |-> <<1, 2, 3, 4>>],
       [fila |-> <<Txt("id;tam;ta;ti")>>,
        orden |-> <<1, 2, 3, 4>>] >>

\* la fila con sus celdas dispuestas en el orden de columnas del encabezado
Disponer(fila, orden) ==
    IF Len(fila) = 4 THEN [j \in 1 .. 4 |-> fila[orden[j]]] ELSE fila

\* secuencias de hasta n indices de FilasCSV
RECURSIVE SecuenciasHasta(_)
SecuenciasHasta(n) ==
    IF n = 0 THEN {<<>>}
    ELSE LET menores == SecuenciasHasta(n - 1)
         IN  menores \cup {Append(q, i) : q \in menores, i \in 1 .. Len(FilasCSV)}

\* los archivos de entrada: el archivo vacio y cada encabezado seguido de
\* hasta MaxFilasCSV filas
EntradasCSV ==
    {<<>>} \cup
    {(IF EncabezadosCSV[e].fila = <<>> THEN <<>> ELSE <<EncabezadosCSV[e].fila>>)
        \o [k \in 1 .. Len(q) |-> Disponer(FilasCSV[q[k]], EncabezadosCSV[e].orden)] :
     e \in 1 .. Len(EncabezadosCSV), q \in SecuenciasHasta(MaxFilasCSV)}

\* La aplicacion recien abierta con el archivo que el usuario va a elegir
InitCSV ==
    /\ pc = "sin_simulador"
    /\ raw \in EntradasCSV
    /\ error_str = <<>>
    /\ reloj = 0
    /\ todos_procesos = <<>>
    /\ procesos_nuevos = <<>>
    /\ cola_listos = <<>>
    /\ cola_listos_suspendidos = <<>>
    /\ proceso_en_ejecucion = Ninguno
    /\ procesos_terminados = <<>>
    /\ procesos_reporte = <<>>
    /\ proceso_asignado = [k \in IdsParticion |-> Ninguno]
    /\ eventos = <<>>
    /\ eventos_del_tick = <<>>

\* App.cargar_csv: lee y valida el archivo; sin procesos validos aborta, con
\* ellos crea el simulador (el constructor sigue en los pasos siguientes)
CargarCSV ==
    /\ pc = "sin_simulador"
    /\ LET r == ParsearCsvData(raw)
       IN  /\ error_str' = r.errores
           /\ IF r.procs = <<>>
              THEN pc' = "sin_procesos" /\ UNCHANGED todos_procesos
              ELSE pc' = "preparar_colas" /\ todos_procesos' = r.procs
    /\ UNCHANGED <<raw, reloj, procesos_nuevos, cola_listos,
                   cola_listos_suspendidos, proceso_en_ejecucion,
                   procesos_terminados, procesos_reporte, proceso_asignado,
                   eventos, eventos_del_tick>>

NextCSV ==
    \/ CargarCSV
    \/ PrepararColas
    \/ GuardarEstadoInicial
    \/ IntentarAdmision
    \/ EjecutarPlanificador

SpecCSV == InitCSV /\ [][NextCSV]_vars

---------------------------------------------------------------------------
(* Vocabulario de las propiedades *)

\* los procesos de la cohorte simulada
Cohorte == Rango(procesos_reporte)

\* cuantas veces aparece x en la secuencia s
Veces(s, x) == Cardinality({i \in 1 .. Len(s) : s[i] = x})

\* el motor esta entre dos ticks (tras el constructor o tras un tick completo)
EnReposo == pc = "reposo"

\* 1 si hay proceso en CPU, 0 si no
EnCPU == IF proceso_en_ejecucion # Ninguno THEN 1 ELSE 0

\* en cuantas colas (contando la CPU) figura el proceso h
Apariciones(h) ==
    Veces(procesos_nuevos, h) + Veces(cola_listos_suspendidos, h)
    + Veces(cola_listos, h) + Veces(procesos_terminados, h)
    + (IF proceso_en_ejecucion = h THEN 1 ELSE 0)

\* el estado que corresponde a la cola en la que figura h
EstadoSegunCola(h) ==
    IF Veces(procesos_nuevos, h) > 0 THEN "NUEVO"
    ELSE IF Veces(cola_listos_suspendidos, h) > 0 THEN "L/S"
    ELSE IF Veces(cola_listos, h) > 0 THEN "LISTO"
    ELSE IF proceso_en_ejecucion = h THEN "EJECUCION"
    ELSE "TERMINADO"

Residente(h) == todos_procesos[h].estado \in {"LISTO", "EJECUCION"}

NoCabeNunca(h) == ~CabeEnAlgunaParticion(todos_procesos, h)

---------------------------------------------------------------------------
(* Propiedades *)

\* C1 (conservacion): tras el constructor y tras cada tick, cada proceso de la
\* cohorte figura exactamente una vez entre NUEVOS, L/S, LISTOS, CPU y
\* TERMINADOS (con el estado de esa cola), y
\* |NUEVOS| + |L/S| + |LISTOS| + (1 si hay CPU) + |TERMINADOS| es el tamano de
\* la cohorte: ningun proceso se crea, se duplica ni se pierde.
C1_Conservacion ==
    EnReposo =>
        /\ \A h \in Cohorte :
              /\ Apariciones(h) = 1
              /\ todos_procesos[h].estado = EstadoSegunCola(h)
        /\ Len(procesos_nuevos) + Len(cola_listos_suspendidos) + Len(cola_listos)
           + EnCPU + Len(procesos_terminados) = Len(procesos_reporte)

\* testigo de C1: entre dos ticks hay a la vez procesos en L/S, LISTOS, CPU y
\* TERMINADOS, y alguno de L/S ya estuvo en memoria (salio por swap)
C1_Testigo ==
    /\ EnReposo
    /\ Len(cola_listos) > 0
    /\ proceso_en_ejecucion # Ninguno
    /\ Len(procesos_terminados) > 0
    /\ \E i \in 1 .. Len(cola_listos_suspendidos) :
          todos_procesos[cola_listos_suspendidos[i]].t_llegada_listo # SinFijar

\* C2 (ocupacion disjunta): tras el constructor y tras cada tick, cada particion
\* de usuario tiene a lo sumo un ocupante, cada proceso ocupa a lo sumo una
\* particion, la particion del SO no se asigna, y un proceso tiene id_particion
\* si y solo si esta en LISTO o EJECUCION, y entonces el ocupante de esa
\* particion es ese mismo proceso.
C2_OcupacionDisjunta ==
    EnReposo =>
        /\ \A h \in Cohorte :
              /\ todos_procesos[h].id_particion # SinParticion <=> Residente(h)
              /\ todos_procesos[h].id_particion # SinParticion =>
                    /\ todos_procesos[h].id_particion \in IdsParticion
                    /\ ~EsSO(todos_procesos[h].id_particion)
                    /\ proceso_asignado[todos_procesos[h].id_particion] = h
        /\ \A k \in IdsParticion :
              /\ EsSO(k) => proceso_asignado[k] = Ninguno
              /\ proceso_asignado[k] # Ninguno =>
                    /\ proceso_asignado[k] \in Cohorte
                    /\ todos_procesos[proceso_asignado[k]].id_particion = k
              /\ Cardinality({h \in Cohorte : todos_procesos[h].id_particion = k}) <= 1
        /\ \A k1, k2 \in IdsParticion :
              proceso_asignado[k1] # Ninguno /\ proceso_asignado[k1] = proceso_asignado[k2]
                  => k1 = k2

\* testigo de C2: tras un tick hay tres residentes, un terminado que libero su
\* particion y un proceso devuelto a L/S por un swap
C2_Testigo ==
    /\ EnReposo
    /\ Cardinality({h \in Cohorte : Residente(h)}) = GDMMemoria
    /\ Len(procesos_terminados) > 0
    /\ \E h \in Cohorte :
          /\ todos_procesos[h].estado = "L/S"
          /\ todos_procesos[h].t_llegada_listo # SinFijar

\* C3 (limite de slots del sistema): en todo estado alcanzable, incluido el
\* que deja el constructor, hay a lo sumo GDMSistema = 5 procesos entre L/S,
\* LISTOS y CPU.
C3_LimiteSistema ==
    Len(cola_listos_suspendidos) + Len(cola_listos) + EnCPU <= GDMSistema

\* C4 (SRTF): entre dos ticks, si la CPU esta ocupada, ningun proceso de LISTOS
\* tiene t_restante estrictamente menor que el que ejecuta, ni igual t_restante
\* con t_llegada_listo estrictamente anterior.
C4_SRTF ==
    (EnReposo /\ proceso_en_ejecucion # Ninguno) =>
        \A i \in 1 .. Len(cola_listos) :
            LET l   == todos_procesos[cola_listos[i]]
                run == todos_procesos[proceso_en_ejecucion]
            IN  /\ ~(l.t_restante < run.t_restante)
                /\ ~(l.t_restante = run.t_restante
                     /\ l.t_llegada_listo < run.t_llegada_listo)

\* testigo de C4: un tick termina con un desalojo y quedan dos procesos en
\* LISTOS detras del que ejecuta
C4_Testigo ==
    /\ EnReposo
    /\ proceso_en_ejecucion # Ninguno
    /\ Len(cola_listos) >= 2
    /\ \E i \in 1 .. Len(eventos_del_tick) : eventos_del_tick[i].tipo = "Desalojo"

\* las particiones de usuario libres en el momento en que se carga un proceso
\* durante un paso: las que estaban libres y la que la victima acaba de dejar
LibresAlCargar ==
    {j \in IdsParticion :
        /\ ~EsSO(j)
        /\ \/ proceso_asignado[j] = Ninguno
           \/ todos_procesos'[proceso_asignado[j]].estado = "L/S"}

\* C5 (Best-Fit): cada vez que un proceso entra a una particion (pasa de L/S a
\* LISTO), esa particion estaba libre y no es la del SO, su tamano alcanza para
\* el proceso y su fragmentacion tamano - proceso es la minima entre las
\* particiones libres donde cabe (a igual fragmentacion, la de menor tamano).
C5_BestFit ==
    [][\A c \in Cohorte :
          (todos_procesos[c].estado = "L/S" /\ todos_procesos'[c].estado = "LISTO") =>
              LET k  == todos_procesos'[c].id_particion
                  tc == todos_procesos[c].tamano
              IN  /\ k \in LibresAlCargar
                  /\ proceso_asignado'[k] = c
                  /\ TamanoParticion(k) >= tc
                  /\ \A j \in LibresAlCargar :
                        TamanoParticion(j) >= tc =>
                            \/ TamanoParticion(k) - tc < TamanoParticion(j) - tc
                            \/ /\ TamanoParticion(k) - tc = TamanoParticion(j) - tc
                               /\ TamanoParticion(k) <= TamanoParticion(j)]_vars

\* testigo de C5: hubo una admision a una particion que no es la primera de la
\* lista mientras la primera (250 KB) seguia libre: Best-Fit tuvo que elegir
C5_Testigo ==
    /\ pc = "admision"
    /\ proceso_asignado[1] = Ninguno
    /\ Len(eventos) > 0
    /\ eventos[Len(eventos)].tipo = "Admision"
    /\ eventos[Len(eventos)].particion = 3

\* todos los residentes tienen menos t_restante que todos los de L/S
ResidentesMasCortos ==
    \A r \in Rango(PosiblesVictimas(cola_listos, proceso_en_ejecucion)) :
        \A i \in 1 .. Len(cola_listos_suspendidos) :
            todos_procesos[r].t_restante
                < todos_procesos[cola_listos_suspendidos[i]].t_restante

\* C6 (swap): un proceso residente solo vuelve a L/S por un swap en el que entra
\* un candidato de t_restante estrictamente menor que cabe en la particion que
\* la victima deja; y con tres residentes, todos de menor t_restante que todos
\* los de L/S, la etapa de admision/swap no cambia nada.
C6_SwapSolido ==
    [][/\ \A v \in Cohorte :
             (Residente(v) /\ todos_procesos'[v].estado = "L/S") =>
                 \E c \in Cohorte :
                     /\ todos_procesos[c].estado = "L/S"
                     /\ todos_procesos'[c].estado = "LISTO"
                     /\ todos_procesos'[c].id_particion = todos_procesos[v].id_particion
                     /\ todos_procesos[v].t_restante > todos_procesos[c].t_restante
                     /\ TamanoParticion(todos_procesos[v].id_particion)
                            >= todos_procesos[c].tamano
       /\ (/\ pc = "admision"
           /\ ProcesosEnMemoria(cola_listos, proceso_en_ejecucion) = GDMMemoria
           /\ ResidentesMasCortos) =>
              /\ pc' = "planificador"
              /\ UNCHANGED <<todos_procesos, cola_listos, proceso_en_ejecucion,
                             proceso_asignado, procesos_nuevos, procesos_terminados>>
              /\ Rango(cola_listos_suspendidos') = Rango(cola_listos_suspendidos)]_vars

\* testigo de C6: tras un swap en este tick, la etapa de admision termina con
\* tres residentes, todos mas cortos que los procesos que quedan en L/S
C6_Testigo ==
    /\ pc = "planificador"
    /\ \E i \in 1 .. Len(eventos) : eventos[i].tipo = "Swap"
    /\ ProcesosEnMemoria(cola_listos, proceso_en_ejecucion) = GDMMemoria
    /\ Len(cola_listos_suspendidos) > 0
    /\ ResidentesMasCortos

\* C7 (servicio monotono): para todo proceso, t_restante nunca aumenta de un
\* paso al siguiente, siempre cumple 0 <= t_restante <= t_irrupcion, y el
\* proceso esta TERMINADO si y solo si su t_restante es exactamente 0.
C7_ServicioMonotono ==
    /\ [](\A h \in DOMAIN todos_procesos :
            /\ 0 <= todos_procesos[h].t_restante
            /\ todos_procesos[h].t_restante <= todos_procesos[h].t_irrupcion
            /\ todos_procesos[h].estado = "TERMINADO"
                  <=> todos_procesos[h].t_restante = 0)
    /\ [][\A h \in DOMAIN todos_procesos :
            todos_procesos'[h].t_restante <= todos_procesos[h].t_restante]_vars

\* testigo de C7: hay un proceso terminado (t_restante 0), otro a medio servir
\* y otro que todavia no recibio CPU
C7_Testigo ==
    /\ \E h \in Cohorte : /\ todos_procesos[h].estado = "TERMINADO"
                          /\ todos_procesos[h].t_restante = 0
    /\ \E h \in Cohorte : /\ 0 < todos_procesos[h].t_restante
                          /\ todos_procesos[h].t_restante < todos_procesos[h].t_irrupcion
    /\ \E h \in Cohorte : /\ Residente(h)
                          /\ todos_procesos[h].t_restante = todos_procesos[h].t_irrupcion

\* la cohorte es la del escenario de la especificacion
EsEscenario ==
    /\ Len(todos_procesos) = 2
    /\ \A i \in 1 .. 2 :
          /\ todos_procesos[i].id_proceso = EscenarioBestFit[i].id_proceso
          /\ todos_procesos[i].tamano = EscenarioBestFit[i].tamano
          /\ todos_procesos[i].t_arribo = EscenarioBestFit[i].t_arribo
          /\ todos_procesos[i].t_irrupcion = EscenarioBestFit[i].t_irrupcion

\* el escenario, justo despues del primer tick
EscenarioTrasPrimerTick == EsEscenario /\ EnReposo /\ reloj = 1

\* lo que el snapshot muestra de la particion k
Muestra(k) == DatosGuiParticiones(todos_procesos, proceso_asignado)[k + 1]

\* C8 tal como esta enunciada: en el escenario, tras el primer tick, P2 ejecuta,
\* P1 esta en LISTOS, y el snapshot muestra a P1 en la particion de 250 KB
\* (FI 130) y a P2 en la de 150 KB (FI 110).
C8_EscenarioOriginal ==
    EscenarioTrasPrimerTick =>
        /\ proceso_en_ejecucion = 2
        /\ cola_listos = <<1>>
        /\ Muestra(1).contenido = <<"P", 1, 120>> /\ Muestra(1).estado = <<"FI", 130>>
        /\ Muestra(2).contenido = <<"P", 2, 40>> /\ Muestra(2).estado = <<"FI", 110>>

\* C8 corregida: en el escenario, tras el primer tick, P2 ejecuta, P1 esta en
\* LISTOS, y el snapshot muestra a P1 en la particion de 150 KB (FI 30), a P2
\* en la de 50 KB (FI 10) y la de 250 KB libre.
C8_EscenarioBestFit ==
    EscenarioTrasPrimerTick =>
        /\ proceso_en_ejecucion = 2
        /\ todos_procesos[2].estado = "EJECUCION"
        /\ cola_listos = <<1>>
        /\ todos_procesos[1].estado = "LISTO"
        /\ Muestra(2).tamano = 150
        /\ Muestra(2).contenido = <<"P", 1, 120>> /\ Muestra(2).estado = <<"FI", 30>>
        /\ Muestra(3).tamano = 50
        /\ Muestra(3).contenido = <<"P", 2, 40>> /\ Muestra(3).estado = <<"FI", 10>>
        /\ Muestra(1).tamano = 250
        /\ Muestra(1).contenido = <<"-">> /\ Muestra(1).estado = <<"Espacio Libre">>

\* testigo de C8: el escenario, tras el primer tick, con P2 ya atendido una
\* unidad
C8_Testigo == EscenarioTrasPrimerTick /\ todos_procesos[2].t_restante = 2

\* C9 (proceso que no cabe): un proceso mayor que toda particion de usuario
\* nunca esta en LISTO, EJECUCION ni TERMINADO, no figura en LISTOS, CPU ni
\* TERMINADOS, no ocupa particion, y una vez en L/S se queda en L/S.
C9_NoCabeQuedaEnLS ==
    /\ [](\A h \in DOMAIN todos_procesos :
            NoCabeNunca(h) =>
                /\ todos_procesos[h].estado \in {"NUEVO", "L/S"}
                /\ todos_procesos[h].id_particion = SinParticion
                /\ Veces(cola_listos, h) = 0
                /\ Veces(procesos_terminados, h) = 0
                /\ proceso_en_ejecucion # h
                /\ \A k \in IdsParticion : proceso_asignado[k] # h)
    /\ [][\A h \in DOMAIN todos_procesos :
            (NoCabeNunca(h) /\ todos_procesos[h].estado = "L/S") =>
                /\ todos_procesos'[h].estado = "L/S"
                /\ Veces(cola_listos_suspendidos', h) = 1]_vars

\* testigo de C9: tras varios ticks un proceso de 300 KB sigue en L/S aunque ya
\* termino otro proceso, hay particiones libres y lugar en memoria
C9_Testigo ==
    /\ EnReposo
    /\ reloj >= 2
    /\ Len(procesos_terminados) > 0
    /\ ProcesosEnMemoria(cola_listos, proceso_en_ejecucion) < GDMMemoria
    /\ Len(Libres(proceso_asignado)) > 0
    /\ \E i \in 1 .. Len(cola_listos_suspendidos) :
          /\ NoCabeNunca(cola_listos_suspendidos[i])
          /\ todos_procesos[cola_listos_suspendidos[i]].tamano = 300

\* IsFinished(): la negacion de is_running() sobre el estado actual
Finalizada ==
    ~IsRunning(todos_procesos, procesos_nuevos, cola_listos,
               cola_listos_suspendidos, proceso_en_ejecucion)

\* C10 (informe de no admitidos): siempre que IsFinished() es verdadero, el
\* informe final tiene una fila "No admitido" por cada proceso de la cohorte
\* que no cabe en ninguna particion de usuario, cualquiera sea su arribo y la
\* cola en la que este.
C10_NoAdmitidosInformados ==
    (EnReposo /\ Finalizada) =>
        \A h \in Cohorte :
            NoCabeNunca(h) =>
                \E i \in 1 .. Len(ReporteProcesos(todos_procesos, procesos_reporte)) :
                    LET fila == ReporteProcesos(todos_procesos, procesos_reporte)[i]
                    IN  /\ fila.pid = todos_procesos[h].id_proceso
                        /\ fila.marca = "No admitido"

---------------------------------------------------------------------------
(* Los procesos que no caben y el avance de los demas *)

\* el sistema esta atascado: no hay nadie en memoria, L/S esta llena (GDM del
\* sistema) de procesos que no caben en ninguna particion, y en NUEVOS espera
\* un proceso que si cabe
Atascado ==
    /\ EnReposo
    /\ proceso_en_ejecucion = Ninguno
    /\ Len(cola_listos) = 0
    /\ Len(cola_listos_suspendidos) >= GDMSistema
    /\ \A i \in 1 .. Len(cola_listos_suspendidos) :
          NoCabeNunca(cola_listos_suspendidos[i])
    /\ \E i \in 1 .. Len(procesos_nuevos) : ~NoCabeNunca(procesos_nuevos[i])

\* un atasco es permanente: ningun paso de un tick que empieza atascado cambia
\* las colas, la CPU, las particiones ni los procesos, asi que el proceso que
\* cabe y espera en NUEVOS no termina nunca e is_running() sigue verdadero
AtascoPermanente ==
    [][(/\ proceso_en_ejecucion = Ninguno
        /\ Len(cola_listos) = 0
        /\ Len(cola_listos_suspendidos) >= GDMSistema
        /\ \A i \in 1 .. Len(cola_listos_suspendidos) :
              NoCabeNunca(cola_listos_suspendidos[i])
        /\ pc \notin {"preparar_colas", "estado_inicial"})
       => UNCHANGED <<todos_procesos, procesos_nuevos, cola_listos,
                      cola_listos_suspendidos, proceso_en_ejecucion,
                      procesos_terminados, proceso_asignado>>]_vars

\* C11 (los que no caben no bloquean): para toda cohorte, llamando a tick() una
\* y otra vez, todo proceso que cabe en alguna particion de usuario llega a
\* TERMINADO e IsFinished() llega a ser verdadero, sin importar cuantos procesos
\* de la cohorte no caben en ninguna.  Como un atasco es permanente
\* (AtascoPermanente), eso exige que el sistema nunca quede atascado.
C11_NuncaAtascado == ~Atascado

---------------------------------------------------------------------------
(* El fin de la simulacion *)

\* el proceso h es mas grande que todas las particiones de usuario
MayorQueTodas(h) ==
    \A k \in IdsParticion :
        ~EsSO(k) => todos_procesos[h].tamano > TamanoParticion(k)

\* nadie en CPU, nadie en LISTOS, y solo quedan por entrar procesos mas grandes
\* que la mayor particion de usuario
NadaPorHacer ==
    /\ proceso_en_ejecucion = Ninguno
    /\ Len(cola_listos) = 0
    /\ \A i \in 1 .. Len(cola_listos_suspendidos) :
          MayorQueTodas(cola_listos_suspendidos[i])
    /\ \A i \in 1 .. Len(procesos_nuevos) : MayorQueTodas(procesos_nuevos[i])

\* C12 (IsFinished): IsFinished() es verdadero exactamente cuando no hay proceso
\* en ejecucion, LISTOS esta vacia y todo proceso que sigue en L/S o en NUEVOS
\* es mas grande que la mayor particion de usuario.
C12_IsFinished == Finalizada <=> NadaPorHacer

\* testigo de C12: tras varios ticks la simulacion esta finalizada con procesos
\* terminados y con un proceso que no cabe esperando en L/S
C12_Testigo ==
    /\ EnReposo /\ reloj > 1
    /\ Finalizada
    /\ Len(procesos_terminados) >= 2
    /\ Len(cola_listos_suspendidos) >= 1

\* los datos que un tick podria cambiar: estados de los procesos, pertenencia a
\* las colas y ocupantes de las particiones
SinCambios ==
    /\ \A h \in DOMAIN todos_procesos :
          todos_procesos'[h].estado = todos_procesos[h].estado
    /\ Rango(procesos_nuevos') = Rango(procesos_nuevos)
    /\ Rango(cola_listos_suspendidos') = Rango(cola_listos_suspendidos)
    /\ Rango(cola_listos') = Rango(cola_listos)
    /\ Rango(procesos_terminados') = Rango(procesos_terminados)
    /\ proceso_en_ejecucion' = proceso_en_ejecucion
    /\ proceso_asignado' = proceso_asignado

\* C13 (tras el fin no cambia nada): siempre que IsFinished() es verdadero, un
\* tick mas no cambia el estado de ningun proceso, la pertenencia a ninguna cola
\* ni el ocupante de ninguna particion.  Paso a paso: la fase de CPU de un tick
\* que empieza finalizado, su fase de llegadas (sigue finalizado y `eventos`
\* esta vacia: nadie termino en este tick) y, con nadie en memoria y solo
\* procesos que no caben en L/S, la admision y el planificador.
C13_TrasElFinNadaCambia ==
    [][/\ (EnReposo /\ Finalizada) => SinCambios
       /\ (pc = "llegadas" /\ Finalizada /\ eventos = <<>>) => SinCambios
       /\ (/\ pc \in {"admision", "planificador"}
           /\ reloj > 0
           /\ proceso_en_ejecucion = Ninguno
           /\ Len(cola_listos) = 0
           /\ \A i \in 1 .. Len(cola_listos_suspendidos) :
                 MayorQueTodas(cola_listos_suspendidos[i])) => SinCambios]_vars

\* C14 (cota de seguridad): si la simulacion no termino cuando el reloj pasa la
\* cota de seguridad de 500 ticks, el conductor deja de avanzar (e informa una
\* detencion anormal): ninguna corrida sigue avanzando el reloj mas alla de la
\* cota.
C14_CotaDeSeguridad == reloj <= LimiteTiempo + 1

---------------------------------------------------------------------------
(* La construccion *)

\* las definiciones entregadas al constructor, sin los campos dinamicos
Definiciones ==
    [i \in 1 .. Len(todos_procesos) |->
        [id_proceso |-> todos_procesos[i].id_proceso,
         tamano |-> todos_procesos[i].tamano,
         t_arribo |-> todos_procesos[i].t_arribo,
         t_irrupcion |-> todos_procesos[i].t_irrupcion]]

\* C15 (entrada invalida): construir el motor con una lista que tiene un id
\* repetido o una definicion invalida (id <= 0, tamano <= 0, arribo < 0 o
\* irrupcion <= 0) se rechaza: la construccion falla y no queda ningun estado
\* de simulacion sobre el que tick() pueda correr.
C15_EntradaInvalidaRechazada == ~EsValida(Definiciones) => ~EnReposo

\* el proceso g va antes que el h en el orden (arribo, id)
AntesQue(g, h) ==
    \/ todos_procesos[g].t_arribo < todos_procesos[h].t_arribo
    \/ /\ todos_procesos[g].t_arribo = todos_procesos[h].t_arribo
       /\ todos_procesos[g].id_proceso < todos_procesos[h].id_proceso

\* los procesos entregados que quedaron fuera de la cohorte
Descartados == DOMAIN todos_procesos \ Cohorte

\* C16 (cohorte): la cohorte es exactamente los primeros min(10, n) de los n
\* procesos entregados en orden ascendente de (arribo, id); todos empiezan en
\* NUEVOS con t_restante = t_irrupcion, sin particion y con t_fin y
\* t_primera_ejecucion sin fijar (-1); ningun otro proceso entregado aparece
\* jamas en una cola, una particion o el informe.
C16_Cohorte ==
    pc # "preparar_colas" =>
        LET n == Len(todos_procesos)
        IN  /\ Cardinality(Cohorte) = IF n < 10 THEN n ELSE 10
            /\ Len(procesos_reporte) = Cardinality(Cohorte)
            /\ \A g \in Cohorte : \A h \in Descartados : AntesQue(g, h)
            /\ pc = "estado_inicial" =>
                  /\ procesos_nuevos = procesos_reporte
                  /\ \A i, j \in 1 .. Len(procesos_nuevos) :
                        i < j => AntesQue(procesos_nuevos[i], procesos_nuevos[j])
                  /\ \A h \in Cohorte :
                        /\ todos_procesos[h].estado = "NUEVO"
                        /\ todos_procesos[h].t_restante = todos_procesos[h].t_irrupcion
                        /\ todos_procesos[h].id_particion = SinParticion
                        /\ todos_procesos[h].t_fin = SinFijar
                        /\ todos_procesos[h].t_primera_ejecucion = SinFijar
            /\ \A h \in Descartados :
                  /\ Apariciones(h) = 0
                  /\ \A k \in IdsParticion : proceso_asignado[k] # h
                  /\ \A i \in 1 .. Len(ReporteProcesos(todos_procesos, procesos_reporte)) :
                        ReporteProcesos(todos_procesos, procesos_reporte)[i].pid
                            # todos_procesos[h].id_proceso

\* testigo de C16: se entregaron mas de 10 procesos, la cohorte tiene 10 y, tras
\* algunos ticks, ya hay terminados y un descartado que arribaba antes que
\* el reloj actual
C16_Testigo ==
    /\ EnReposo /\ reloj >= 2
    /\ Len(todos_procesos) > 10
    /\ Len(procesos_reporte) = 10
    /\ Len(procesos_terminados) >= 1
    /\ \E h \in Descartados : todos_procesos[h].t_arribo < reloj

\* C17 (reloj): cada Tick avanza el reloj de la simulacion en exactamente 1: el
\* paso que inicia un tick (desde el reposo) deja reloj' = reloj + 1, y ninguna
\* de las fases siguientes del mismo tick lo toca, de modo que los ticks
\* sucesivos se procesan en 1, 2, 3, ... sin saltear ni repetir valores.
C17_RelojAvanzaDeAUno ==
    [][ /\ (pc = "reposo" /\ pc' # "reposo") => reloj' = reloj + 1
        /\ (pc # "reposo" \/ pc' = "reposo") => reloj' = reloj ]_vars

\* testigo de C17: tras varios ticks completos el reloj llego al tope del
\* modelo con procesos terminados y otros aun en curso
C17_Testigo ==
    /\ EnReposo /\ reloj = MaxReloj
    /\ Len(procesos_terminados) >= 2
    /\ proceso_en_ejecucion # Ninguno

\* el informe que se obtendria al consultar en el estado actual
InformeActual == ReporteFinal(todos_procesos, procesos_reporte, reloj)

\* las filas numericas del informe actual
FilasNumericas ==
    SelectSeq(InformeActual.procesos, LAMBDA f : f.marca = "metricas")

\* C18 (informe final): el informe trae una fila numerica exactamente por cada
\* proceso Terminado, con T = t_fin - t_arribo, W = T - t_irrupcion y
\* R = t_primera_ejecucion - t_arribo (con t_fin y t_primera_ejecucion ya
\* fijados); su cantidad de terminados es |Terminados| y su tiempo final es el
\* reloj actual.
C18_InformeFinal ==
    /\ Len(FilasNumericas) = Len(procesos_terminados)
    /\ \A i \in 1 .. Len(FilasNumericas) :
          \E j \in 1 .. Len(procesos_terminados) :
              LET p == todos_procesos[procesos_terminados[j]]
                  f == FilasNumericas[i]
              IN  /\ f.pid = p.id_proceso
                  /\ p.t_fin # SinFijar /\ p.t_primera_ejecucion # SinFijar
                  /\ f.retorno = p.t_fin - p.t_arribo
                  /\ f.espera = f.retorno - p.t_irrupcion
                  /\ f.respuesta = p.t_primera_ejecucion - p.t_arribo
    /\ \A j \in 1 .. Len(procesos_terminados) :
          \E i \in 1 .. Len(FilasNumericas) :
              FilasNumericas[i].pid = todos_procesos[procesos_terminados[j]].id_proceso
    /\ InformeActual.procesos_contados = Len(procesos_terminados)
    /\ InformeActual.tiempo_final = reloj

\* testigo de C18: un informe pedido entre ticks con dos filas numericas de
\* espera positiva, una fila "No admitido" y procesos de la cohorte que aun no
\* terminaron y no figuran
C18_Testigo ==
    /\ EnReposo /\ reloj >= 3
    /\ Len(FilasNumericas) >= 2
    /\ \E i \in 1 .. Len(FilasNumericas) : FilasNumericas[i].espera > 0
    /\ Len(InformeActual.procesos) > Len(FilasNumericas)
    /\ Len(procesos_reporte) > Len(InformeActual.procesos)

\* el paso es una consulta (snapshot o informe): ocurre en reposo y deja al
\* motor en reposo
PasoDeConsulta == pc = "reposo" /\ pc' = "reposo"

\* C19 (consultas de solo lectura): pedir el snapshot o el informe final, en
\* cualquier momento y cuantas veces sea, deja sin cambios el reloj, el
\* contenido y el orden de NUEVOS, L/S, LISTOS y TERMINADOS, el proceso en
\* ejecucion, el ocupante de cada particion y los campos dinamicos de cada
\* proceso; la lista sobre la que se arma el informe conserva sus miembros, de
\* modo que los ticks siguientes son los mismos que sin la consulta.
C19_ConsultasSoloLectura ==
    [][ PasoDeConsulta =>
          /\ UNCHANGED <<reloj, procesos_nuevos, cola_listos_suspendidos,
                         cola_listos, procesos_terminados,
                         proceso_en_ejecucion, proceso_asignado,
                         todos_procesos>>
          /\ Rango(procesos_reporte') = Rango(procesos_reporte)
          /\ Len(procesos_reporte') = Len(procesos_reporte) ]_vars

\* testigo de C19: hay un tick en curso despues de que un informe reordeno
\* procesos_reporte (ya no esta en el orden (arribo, id) de la seleccion), con
\* terminados que no estan en orden de id
C19_Testigo ==
    /\ pc = "planificador" /\ reloj >= 3
    /\ procesos_reporte # Seleccion(todos_procesos)
    /\ Len(procesos_terminados) >= 2
    /\ procesos_terminados # Ordenar(procesos_terminados, ClaveId(todos_procesos))

\* cantidad de procesos en LISTOS o en ejecucion (grado de multiprogramacion
\* en memoria)
Residentes == Len(cola_listos) + EnCPU

\* el paso agrego un evento del tipo dado a la lista de eventos en armado
AgregaEvento(tipo) ==
    /\ Len(eventos') = Len(eventos) + 1
    /\ eventos'[Len(eventos')].tipo = tipo

\* C20 (limite de residentes): en todo estado alcanzable la cantidad de
\* procesos en LISTOS o en ejecucion es a lo sumo 3, y una admision normal (a
\* diferencia de un swap) solo ocurre cuando esa cantidad es menor que 3 y la
\* sube en uno; un swap ocurre con 3 y la deja en 3.
C20_LimiteDeResidentes ==
    /\ [](Residentes <= 3)
    /\ [][ /\ AgregaEvento("Admision") =>
                 Residentes < 3 /\ Residentes' = Residentes + 1
           /\ AgregaEvento("Swap") =>
                 Residentes = 3 /\ Residentes' = 3 ]_vars

\* testigo de C20: con la memoria en su limite de 3 residentes acaba de
\* hacerse un swap cuya victima estaba en LISTOS, antes hubo admisiones
\* normales, y en L/S espera un proceso que cabe en alguna particion
C20_Testigo ==
    /\ pc = "admision" /\ reloj >= 1
    /\ Residentes = 3 /\ Len(cola_listos) = 3
    /\ Len(eventos) >= 2
    /\ eventos[Len(eventos)].tipo = "Swap"
    /\ \E i \in 1 .. Len(eventos) : eventos[i].tipo = "Admision"
    /\ \E i \in 1 .. Len(cola_listos_suspendidos) :
          CabeEnAlgunaParticion(todos_procesos, cola_listos_suspendidos[i])

---------------------------------------------------------------------------
(* La carga del CSV *)

\* la carga ya se hizo (con o sin procesos validos)
Cargado == pc # "sin_simulador"

\* posiciones de raw que son filas de datos: todas, o todas menos la primera
\* cuando la primera no son cuatro enteros y se toma como encabezado
FilasDeDatos ==
    IF raw = <<>> THEN {}
    ELSE {k \in 1 .. Len(raw) : k >= Columnas(raw[1]).desde}

\* los campos de la fila k leidos en las columnas del archivo
Campos(k) ==
    LET idx == Columnas(raw[1]).idx
    IN  [id |-> Get(raw[k], idx.id), tam |-> Get(raw[k], idx.tam),
         ta |-> Get(raw[k], idx.ta), ti |-> Get(raw[k], idx.ti)]

\* la fila k no tiene ninguna celda con contenido
EnBlanco(k) == \A j \in 1 .. Len(raw[k]) : raw[k][j] = Vacia

\* la fila k cumple todas las condiciones por si sola
FilaBuena(k) ==
    LET c == Campos(k)
    IN  /\ EsEntero(c.id) /\ EsEntero(c.tam) /\ EsEntero(c.ta) /\ EsEntero(c.ti)
        /\ c.id.n > 0 /\ c.tam.n > 0 /\ c.ta.n >= 0 /\ c.ti.n > 0

\* la fila k es buena y la primera buena con su id
PrimeraConSuId(k) ==
    /\ FilaBuena(k)
    /\ \A j \in FilasDeDatos : j < k /\ FilaBuena(j) => Campos(j).id.n # Campos(k).id.n

\* las posiciones de un conjunto, en orden creciente
RECURSIVE Creciente(_)
Creciente(S) ==
    IF S = {} THEN <<>>
    ELSE LET m == CHOOSE x \in S : \A y \in S : x <= y
         IN  <<m>> \o Creciente(S \ {m})

\* las definiciones que deben cargarse: las filas buenas primeras con su id, en
\* el orden del archivo y con los valores del archivo
Esperadas ==
    LET ks == Creciente({k \in FilasDeDatos : PrimeraConSuId(k)})
    IN  [i \in 1 .. Len(ks) |->
            [id_proceso |-> Campos(ks[i]).id.n, tamano |-> Campos(ks[i]).tam.n,
             t_arribo |-> Campos(ks[i]).ta.n, t_irrupcion |-> Campos(ks[i]).ti.n]]

\* la lista cargada es vacia o valida
CargaValida ==
    /\ \A i \in 1 .. Len(Definiciones) :
          /\ Definiciones[i].id_proceso > 0 /\ Definiciones[i].tamano > 0
          /\ Definiciones[i].t_arribo >= 0 /\ Definiciones[i].t_irrupcion > 0
    /\ \A i, j \in 1 .. Len(Definiciones) :
          i # j => Definiciones[i].id_proceso # Definiciones[j].id_proceso

\* toda fila de datos con contenido que no se cargo figura, con su numero de
\* linea, entre los errores devueltos
RechazosInformados ==
    \A k \in FilasDeDatos :
        ~EnBlanco(k) /\ ~PrimeraConSuId(k) =>
            \E i \in 1 .. Len(error_str) : error_str[i].fila = k

\* C21 (lector de CSV): el lector entrega una lista vacia o valida (id > 0,
\* tamano > 0, arribo >= 0, irrupcion > 0, ids distintos); de las filas con un
\* mismo id se conserva la primera y se descartan las siguientes; las filas se
\* cargan sin retocar sus valores, y toda fila que viola alguna condicion se
\* descarta y se informa.
C21_LectorEntregaListaValida ==
    Cargado => /\ CargaValida
               /\ Definiciones = Esperadas
               /\ RechazosInformados

---------------------------------------------------------------------------
(* Las llegadas al sistema *)

\* procesos en L/S, LISTOS o en ejecucion (grado de multiprogramacion del
\* sistema)
EnSistema == Len(cola_listos_suspendidos) + Len(cola_listos) + EnCPU

\* el paso es la fase de llegadas de un tick
PasoDeLlegadas == pc = "llegadas" /\ pc' = "admision"

\* los procesos de NUEVOS cuyo arribo ya se cumplio
Vencidos ==
    {h \in Rango(procesos_nuevos) : todos_procesos[h].t_arribo <= reloj}

\* C22 (llegadas y limite del sistema): tras la fase de llegadas de cada tick,
\* un proceso cuyo arribo ya se cumplio (t_arribo <= reloj) sigue en NUEVOS
\* solo si no se lo puede admitir, es decir, solo si la cantidad de procesos
\* en L/S, LISTOS o en ejecucion llego a 5.
C22_VencidoSoloSiSistemaLleno ==
    [][ PasoDeLlegadas => (Vencidos' # {} => EnSistema' >= 5) ]_vars

\* testigo de C22: terminada la fase de llegadas de un tick queda en NUEVOS un
\* proceso que arribaba en este tick y se lo informo como rechazado, el
\* sistema tiene exactamente 5 procesos, y en L/S hay uno del tick anterior
\* que aun no recibio CPU
C22_Testigo ==
    /\ pc = "admision" /\ reloj >= 2
    /\ EnSistema = 5
    /\ \E h \in Vencidos : todos_procesos[h].t_arribo = reloj
    /\ \E i \in 1 .. Len(cola_listos_suspendidos) :
          /\ todos_procesos[cola_listos_suspendidos[i]].t_arribo = reloj - 1
          /\ todos_procesos[cola_listos_suspendidos[i]].t_restante
                = todos_procesos[cola_listos_suspendidos[i]].t_irrupcion
    /\ eventos # <<>>
    /\ eventos[Len(eventos)].tipo = "GDMLleno"

\* los procesos que el paso saca de NUEVOS
SalenDeNuevos == Rango(procesos_nuevos) \ Rango(procesos_nuevos')

\* C23 (orden de las llegadas): el paso de NUEVOS a L/S sigue el orden
\* ascendente de (arribo, id): ningun proceso sale de NUEVOS mientras queda
\* en NUEVOS otro con (arribo, id) menor.
C23_LlegadasEnOrden ==
    [][ \A h \in SalenDeNuevos : \A g \in Rango(procesos_nuevos') :
            AntesQue(h, g) ]_vars

\* testigo de C23: ya salieron de NUEVOS al menos seis procesos, uno de ellos
\* arribo en este tick y esta en L/S, y en NUEVOS queda al menos un proceso
\* vencido
C23_Testigo ==
    /\ pc = "admision" /\ reloj >= 1
    /\ Len(procesos_reporte) - Len(procesos_nuevos) >= 6
    /\ Len(procesos_nuevos) >= 1
    /\ Vencidos # {}
    /\ \E i \in 1 .. Len(cola_listos_suspendidos) :
          todos_procesos[cola_listos_suspendidos[i]].t_arribo = reloj

\* un proceso vencido quedo varado en NUEVOS: el tick termino, el sistema esta
\* lleno, no hay nadie en memoria y todo lo que espera en L/S no cabe en
\* ninguna particion, de modo que ningun lugar del sistema se va a liberar
Varado ==
    /\ EnReposo /\ reloj >= 1
    /\ Vencidos # {}
    /\ proceso_en_ejecucion = Ninguno
    /\ Len(cola_listos) = 0
    /\ Len(cola_listos_suspendidos) >= GDMSistema
    /\ \A i \in 1 .. Len(cola_listos_suspendidos) :
          NoCabeNunca(cola_listos_suspendidos[i])

\* C24 (reintento de los vencidos): un proceso vencido que quedo en NUEVOS por
\* el limite del sistema reintenta en cada tick hasta entrar: llamando a
\* tick() una y otra vez, todo proceso de NUEVOS cuyo arribo ya se cumplio pasa
\* alguna vez a L/S.  Desde un estado con el sistema lleno de procesos que no
\* caben ningun tick cambia nada (AtascoPermanente), asi que eso exige que
\* ningun vencido quede varado.
C24_VencidoNoQuedaVarado == ~Varado

\* algun evento del tipo dado, en la lista de eventos que deja el paso, nombra
\* al proceso h
NombradoEn(tipo, h) ==
    \E i \in 1 .. Len(eventos') :
        /\ eventos'[i].tipo = tipo
        /\ h \in Rango(eventos'[i].procesos)

\* C25 (eventos de las llegadas): la lista de eventos de un tick registra los
\* admitidos y los rechazados por capacidad: nombra a todo proceso que paso de
\* NUEVOS a L/S en ese tick (incluidos los que entran tarde, despues de su
\* arribo) y a todo proceso vencido que quedo en NUEVOS por el limite del
\* sistema.
C25_EventosDeLlegadas ==
    [][ PasoDeLlegadas =>
          /\ \A h \in SalenDeNuevos : NombradoEn("ArribanAlSistema", h)
          /\ \A h \in Vencidos' : NombradoEn("GDMLleno", h) ]_vars

---------------------------------------------------------------------------
(* La admision a memoria y el swap *)

\* el proceso que entra a memoria en el evento que el paso acaba de agregar
\* (admision normal: el unico nombrado; swap: el segundo, tras la victima)
Entrante == eventos'[Len(eventos')].procesos[Len(eventos'[Len(eventos')].procesos)]

\* el proceso h cabe en alguna particion libre del estado actual
CabeEnAlgunaLibre(h) ==
    \E k \in IdsParticion :
        /\ ~EsSO(k) /\ proceso_asignado[k] = Ninguno
        /\ todos_procesos[h].tamano <= TamanoParticion(k)

\* g va antes que h en el orden (t_restante, id)
MasCortoQue(g, h) ==
    \/ todos_procesos[g].t_restante < todos_procesos[h].t_restante
    \/ /\ todos_procesos[g].t_restante = todos_procesos[h].t_restante
       /\ todos_procesos[g].id_proceso < todos_procesos[h].id_proceso

\* C26 (candidato de la admision normal): cuando hay una admision normal
\* (menos de 3 residentes y alguna particion libre), el proceso que entra es
\* el primero, en orden ascendente de (t_restante, id), entre los de L/S que
\* caben en alguna particion libre, sin importar el orden de arribo; pasa a
\* LISTO con t_llegada_listo igual al reloj actual.
C26_CandidatoDeAdmision ==
    [][ AgregaEvento("Admision") =>
          /\ Residentes < 3
          /\ Entrante \in Rango(cola_listos_suspendidos)
          /\ CabeEnAlgunaLibre(Entrante)
          /\ \A g \in Rango(cola_listos_suspendidos) :
                 CabeEnAlgunaLibre(g) /\ g # Entrante => MasCortoQue(Entrante, g)
          /\ Entrante \notin Rango(cola_listos_suspendidos')
          /\ cola_listos' = Append(cola_listos, Entrante)
          /\ todos_procesos'[Entrante].estado = "LISTO"
          /\ todos_procesos'[Entrante].t_llegada_listo = reloj ]_vars

\* el ultimo evento agregado a la lista en armado
UltimoEvento == eventos[Len(eventos)]

\* testigo de C26: acaba de entrar por admision normal, en un tick, un proceso
\* que arribo despues que otro que sigue en L/S, tiene mas tiempo restante y
\* cabia en la misma particion
C26_Testigo ==
    /\ pc = "admision" /\ reloj >= 1
    /\ eventos # <<>>
    /\ UltimoEvento.tipo = "Admision"
    /\ LET c == UltimoEvento.procesos[1]
       IN  \E g \in Rango(cola_listos_suspendidos) :
               /\ todos_procesos[g].t_arribo < todos_procesos[c].t_arribo
               /\ todos_procesos[g].t_restante > todos_procesos[c].t_restante
               /\ todos_procesos[g].tamano
                     <= TamanoParticion(todos_procesos[c].id_particion)

\* los procesos en memoria: LISTOS y el que esta en ejecucion
EnMemoria ==
    Rango(cola_listos)
    \cup (IF proceso_en_ejecucion # Ninguno THEN {proceso_en_ejecucion} ELSE {})

\* el proceso c de L/S puede desalojar a alguien: hay un residente en una
\* particion donde c cabe y con mas tiempo restante que c
PuedeDesalojar(c) ==
    \E v \in EnMemoria :
        /\ TamanoParticion(todos_procesos[v].id_particion) >= todos_procesos[c].tamano
        /\ todos_procesos[v].t_restante > todos_procesos[c].t_restante

\* C27 (candidato del swap), como esta enunciado: con la memoria llena se
\* evalua el swap para el mejor candidato de L/S: siempre que hay un swap, el
\* proceso que entra es el primero de L/S en orden ascendente de
\* (t_restante, id).
C27_EntraElPrimeroDeLS ==
    [][ AgregaEvento("Swap") =>
          \A g \in Rango(cola_listos_suspendidos) :
              g # Entrante => MasCortoQue(Entrante, g) ]_vars

\* C27 corregido: siempre que hay un swap la memoria tiene 3 residentes y el
\* proceso que entra es el primero, en orden ascendente de (t_restante, id),
\* entre los de L/S que pueden desalojar a alguien (los candidatos anteriores
\* que no caben en la particion de ningun residente, o que no son mas cortos
\* que ninguno de esos residentes, se saltean).
C27_EntraElPrimeroQuePuede ==
    [][ AgregaEvento("Swap") =>
          /\ Residentes = 3
          /\ Entrante \in Rango(cola_listos_suspendidos)
          /\ PuedeDesalojar(Entrante)
          /\ \A g \in Rango(cola_listos_suspendidos) :
                 PuedeDesalojar(g) /\ g # Entrante => MasCortoQue(Entrante, g) ]_vars

\* testigo de C27: acaba de hacerse un swap y en L/S queda, ademas de la
\* victima, un proceso que iba antes que el entrante en el orden
\* (t_restante, id)
C27_Testigo ==
    /\ pc = "admision"
    /\ eventos # <<>>
    /\ UltimoEvento.tipo = "Swap"
    /\ \E g \in Rango(cola_listos_suspendidos) :
          /\ g # UltimoEvento.procesos[1]
          /\ MasCortoQue(g, UltimoEvento.procesos[2])

\* el proceso que sale de memoria en el swap que el paso acaba de agregar
Saliente == eventos'[Len(eventos')].procesos[1]

\* el residente v ocupa una particion donde cabe el proceso c
LeCabe(v, c) ==
    TamanoParticion(todos_procesos[v].id_particion) >= todos_procesos[c].tamano

\* C28 (victima del swap): en todo swap la victima es, entre los procesos
\* residentes (LISTOS o en ejecucion) cuya particion tiene capacidad para el
\* candidato, el de mayor t_restante, y ante igual t_restante el de mayor id.
C28_VictimaDelSwap ==
    [][ AgregaEvento("Swap") =>
          /\ Saliente \in EnMemoria
          /\ LeCabe(Saliente, Entrante)
          /\ \A v \in EnMemoria :
                 LeCabe(v, Entrante) /\ v # Saliente => MasCortoQue(v, Saliente) ]_vars

\* testigo de C28: acaba de hacerse un swap en el que habia otro residente con
\* el mismo t_restante que la victima y menor id, en una particion donde el
\* entrante tambien cabia
C28_Testigo ==
    /\ pc = "admision"
    /\ eventos # <<>>
    /\ UltimoEvento.tipo = "Swap"
    /\ \E v \in EnMemoria :
          /\ v # UltimoEvento.procesos[2]
          /\ todos_procesos[v].t_restante
                = todos_procesos[UltimoEvento.procesos[1]].t_restante
          /\ todos_procesos[v].id_proceso
                < todos_procesos[UltimoEvento.procesos[1]].id_proceso
          /\ LeCabe(v, UltimoEvento.procesos[2])

\* C29 (efecto del swap): un swap tiene exactamente este efecto: la victima
\* pasa a L/S con su referencia de particion borrada y su t_restante intacto;
\* el candidato ocupa la misma particion que dejo la victima y pasa a LISTO
\* con t_llegada_listo igual al reloj actual; ningun otro proceso ni particion
\* cambia; y si la victima estaba en ejecucion la CPU queda libre hasta que
\* el planificador del mismo tick despacha a un proceso de LISTOS.
C29_EfectoDelSwap ==
    [][ /\ AgregaEvento("Swap") =>
             LET k == todos_procesos[Saliente].id_particion
             IN  /\ proceso_asignado[k] = Saliente
                 /\ todos_procesos' =
                       [todos_procesos EXCEPT
                          ![Saliente].estado = "L/S",
                          ![Saliente].id_particion = SinParticion,
                          ![Entrante].estado = "LISTO",
                          ![Entrante].id_particion = k,
                          ![Entrante].t_llegada_listo = reloj]
                 /\ proceso_asignado' = [proceso_asignado EXCEPT ![k] = Entrante]
                 /\ Rango(cola_listos_suspendidos')
                       = (Rango(cola_listos_suspendidos) \ {Entrante}) \cup {Saliente}
                 /\ Len(cola_listos_suspendidos') = Len(cola_listos_suspendidos)
                 /\ Rango(cola_listos') = (Rango(cola_listos) \ {Saliente}) \cup {Entrante}
                 /\ proceso_en_ejecucion' =
                       IF Saliente = proceso_en_ejecucion THEN Ninguno
                       ELSE proceso_en_ejecucion
                 /\ Residentes' = Residentes
                 /\ UNCHANGED <<reloj, procesos_nuevos, procesos_terminados,
                                procesos_reporte>>
        /\ (pc = "admision" /\ pc' = "admision" /\ ~AgregaEvento("Swap")
               /\ proceso_en_ejecucion = Ninguno)
             => proceso_en_ejecucion' = Ninguno
        /\ (pc = "admision" /\ pc' = "planificador")
             => UNCHANGED <<proceso_en_ejecucion, cola_listos>>
        /\ (pc = "planificador" /\ pc' # "planificador"
               /\ proceso_en_ejecucion = Ninguno /\ Len(cola_listos) > 0)
             => proceso_en_ejecucion' \in Rango(cola_listos) ]_vars

\* testigo de C29: el planificador acaba de despachar a un proceso en un tick
\* cuyo ultimo cambio de memoria fue un swap que saco de la CPU al proceso que
\* estaba en ejecucion (la victima ya habia recibido CPU y conserva su
\* t_restante parcial)
C29_Testigo ==
    /\ EnReposo /\ reloj >= 1
    /\ proceso_en_ejecucion # Ninguno
    /\ \E i \in 1 .. Len(eventos_del_tick) :
          /\ eventos_del_tick[i].tipo = "Swap"
          /\ i < Len(eventos_del_tick)
          /\ eventos_del_tick[i + 1].tipo = "Inicia"
          /\ LET v == eventos_del_tick[i].procesos[1]
             IN  /\ todos_procesos[v].estado = "L/S"
                 /\ todos_procesos[v].id_particion = SinParticion
                 /\ todos_procesos[v].t_primera_ejecucion # SinFijar
                 /\ todos_procesos[v].t_restante < todos_procesos[v].t_irrupcion
                 /\ todos_procesos[v].t_restante > 0

(***************************************************************************)
(* El punto fijo del bucle de admision                                     *)
(***************************************************************************)

\* particiones de usuario sin ocupante
ParticionesLibres == Cardinality({k \in 1 .. 3 : proceso_asignado[k] = Ninguno})

\* tiempo restante del ocupante de la particion k (0 si esta libre)
RestanteEn(k) ==
    IF proceso_asignado[k] = Ninguno THEN 0
    ELSE todos_procesos[proceso_asignado[k]].t_restante

\* suma de los tiempos restantes de los procesos en memoria
CargaEnMemoria == RestanteEn(1) + RestanteEn(2) + RestanteEn(3)

\* una vuelta del bucle que produjo un cambio (hubo_cambio = True)
VueltaConCambio == pc = "admision" /\ pc' = "admision"

\* la vuelta sin cambio, que termina el bucle
SalidaDelBucle == pc = "admision" /\ pc' = "planificador"

\* C30 (punto fijo de la admision): la etapa de admision/swap siempre llega a
\* su punto fijo. Una vuelta con cambio baja estrictamente la medida
\* (particiones libres, carga en memoria) en orden lexicografico, y la medida
\* son dos naturales, de modo que solo caben finitas admisiones y swaps;
\* cuando ningun candidato produce cambio el bucle sale sin tocar memoria y el
\* tick sigue con el planificador.
C30_AdmisionLlegaAPuntoFijo ==
    [][ /\ pc = "admision" =>
             /\ ParticionesLibres \in 0 .. 3
             /\ CargaEnMemoria \in Nat
             /\ VueltaConCambio \/ SalidaDelBucle
        /\ VueltaConCambio =>
             /\ \/ AgregaEvento("Admision")
                \/ AgregaEvento("Swap")
             /\ \/ ParticionesLibres' < ParticionesLibres
                \/ /\ ParticionesLibres' = ParticionesLibres
                   /\ CargaEnMemoria' < CargaEnMemoria
             /\ ParticionesLibres' \in 0 .. 3
             /\ CargaEnMemoria' \in Nat
        /\ SalidaDelBucle =>
             /\ ConCambio(todos_procesos, proceso_asignado, cola_listos,
                          proceso_en_ejecucion, cola_listos_suspendidos) = {}
             /\ UNCHANGED <<todos_procesos, proceso_asignado, cola_listos,
                            proceso_en_ejecucion, eventos, reloj>> ]_vars

\* testigo de C30: el bucle acaba de salir en un tick con reloj >= 1 en el que
\* hizo al menos dos cambios, uno de ellos un swap, y aun queda gente en L/S
C30_Testigo ==
    /\ pc = "planificador" /\ reloj >= 1
    /\ Len(cola_listos_suspendidos) > 0
    /\ \E i, j \in 1 .. Len(eventos) :
          /\ i < j
          /\ eventos[i].tipo \in {"Admision", "Swap"}
          /\ eventos[j].tipo = "Swap"

(***************************************************************************)
(* El planificador SRTF                                                    *)
(***************************************************************************)

\* el paso del planificador, que cierra el tick
PasoDelPlanificador == pc = "planificador" /\ pc' = "reposo"

\* g va antes que h en el orden (t_restante, t_llegada_listo, id_proceso)
AntesEnSRTF(g, h) ==
    LET a == todos_procesos[g]
        b == todos_procesos[h]
    IN  \/ a.t_restante < b.t_restante
        \/ /\ a.t_restante = b.t_restante
           /\ \/ a.t_llegada_listo < b.t_llegada_listo
              \/ /\ a.t_llegada_listo = b.t_llegada_listo
                 /\ a.id_proceso < b.id_proceso

\* el primero de LISTOS en ese orden
PrimeroDeListos ==
    CHOOSE g \in Rango(cola_listos) :
        \A h \in Rango(cola_listos) \ {g} : AntesEnSRTF(g, h)

\* C31 (despacho con CPU libre): si la CPU esta libre cuando corre el
\* planificador y LISTOS no esta vacia, pasa a EJECUCION el proceso minimo en
\* el orden (t_restante, t_llegada_listo, id), y su t_primera_ejecucion se fija
\* en el reloj actual solo si no estaba fijado; por eso al final de cada tick
\* la CPU esta libre solo si LISTOS esta vacia, y t_primera_ejecucion no cambia
\* nunca despues del primer despacho de un proceso.
C31_DespachoConCPULibre ==
    [][ /\ (PasoDelPlanificador /\ proceso_en_ejecucion = Ninguno
              /\ Len(cola_listos) > 0) =>
             LET g == PrimeroDeListos
             IN  /\ proceso_en_ejecucion' = g
                 /\ todos_procesos' =
                       [todos_procesos EXCEPT
                          ![g].estado = "EJECUCION",
                          ![g].t_primera_ejecucion =
                              IF todos_procesos[g].t_primera_ejecucion = SinFijar
                              THEN reloj
                              ELSE todos_procesos[g].t_primera_ejecucion]
                 /\ Rango(cola_listos') = Rango(cola_listos) \ {g}
                 /\ Len(cola_listos') = Len(cola_listos) - 1
        /\ EnReposo' =>
             (proceso_en_ejecucion' = Ninguno => Len(cola_listos') = 0)
        /\ pc \notin {"sin_simulador", "preparar_colas"} =>
             \A h \in DOMAIN todos_procesos :
                 /\ todos_procesos[h].t_primera_ejecucion # SinFijar =>
                       todos_procesos'[h].t_primera_ejecucion
                          = todos_procesos[h].t_primera_ejecucion
                 /\ todos_procesos'[h].t_primera_ejecucion
                       # todos_procesos[h].t_primera_ejecucion =>
                       /\ PasoDelPlanificador
                       /\ proceso_en_ejecucion' = h
                       /\ todos_procesos'[h].t_primera_ejecucion = reloj ]_vars

\* testigo de C31: el tick cerro despachando, con la CPU libre y al menos otro
\* proceso detras en LISTOS, a un proceso que ya habia recibido CPU en un tick
\* anterior: su t_primera_ejecucion sigue siendo la de entonces
C31_Testigo ==
    /\ EnReposo /\ reloj >= 2
    /\ proceso_en_ejecucion # Ninguno
    /\ Len(cola_listos) >= 1
    /\ Len(eventos_del_tick) > 0
    /\ eventos_del_tick[Len(eventos_del_tick)].tipo = "Inicia"
    /\ todos_procesos[proceso_en_ejecucion].t_primera_ejecucion # SinFijar
    /\ todos_procesos[proceso_en_ejecucion].t_primera_ejecucion < reloj

\* la cabeza de LISTOS le gana la CPU al proceso en ejecucion
CabezaGana ==
    /\ Len(cola_listos) > 0
    /\ LET c == todos_procesos[PrimeroDeListos]
           r == todos_procesos[proceso_en_ejecucion]
       IN  \/ c.t_restante < r.t_restante
           \/ /\ c.t_restante = r.t_restante
              /\ c.t_llegada_listo < r.t_llegada_listo

\* C32 (desalojo): el planificador desaloja al proceso en ejecucion si y solo
\* si la cabeza de LISTOS tiene t_restante estrictamente menor, o igual
\* t_restante y t_llegada_listo estrictamente anterior; en el empate total el
\* proceso en ejecucion conserva la CPU. En el desalojo el desalojado pasa a
\* LISTO, conserva su particion, y la que era cabeza pasa a EJECUCION.
C32_Desalojo ==
    [][ (PasoDelPlanificador /\ proceso_en_ejecucion # Ninguno) =>
           LET run == proceso_en_ejecucion
           IN  IF CabezaGana
               THEN LET c == PrimeroDeListos
                    IN  /\ proceso_en_ejecucion' = c
                        /\ todos_procesos'[c].estado = "EJECUCION"
                        /\ todos_procesos'[run].estado = "LISTO"
                        /\ todos_procesos'[run].id_particion
                              = todos_procesos[run].id_particion
                        /\ todos_procesos'[run].t_restante
                              = todos_procesos[run].t_restante
                        /\ Rango(cola_listos') = (Rango(cola_listos) \ {c}) \cup {run}
                        /\ Len(cola_listos') = Len(cola_listos)
                        /\ proceso_asignado' = proceso_asignado
                        /\ \A h \in DOMAIN todos_procesos \ {c, run} :
                              todos_procesos'[h] = todos_procesos[h]
                        /\ eventos_del_tick'[Len(eventos_del_tick')].tipo = "Desalojo"
               ELSE /\ UNCHANGED <<proceso_en_ejecucion, todos_procesos,
                                   proceso_asignado>>
                    /\ Rango(cola_listos') = Rango(cola_listos)
                    /\ eventos_del_tick' = eventos ]_vars

\* testigo de C32: el tick cerro con un desalojo; el desalojado queda en LISTOS
\* con su particion y con mas t_restante que el que entro a la CPU, y detras
\* de el hay otro proceso en LISTOS
C32_Testigo ==
    /\ EnReposo
    /\ Len(eventos_del_tick) > 0
    /\ Len(cola_listos) >= 2
    /\ LET e == eventos_del_tick[Len(eventos_del_tick)]
       IN  /\ e.tipo = "Desalojo"
           /\ e.procesos[2] = proceso_en_ejecucion
           /\ e.procesos[1] \in Rango(cola_listos)
           /\ todos_procesos[e.procesos[1]].estado = "LISTO"
           /\ proceso_asignado[todos_procesos[e.procesos[1]].id_particion]
                 = e.procesos[1]
           /\ todos_procesos[e.procesos[1]].t_restante
                 > todos_procesos[e.procesos[2]].t_restante

\* Cuando corre el planificador con la CPU ocupada, un proceso de LISTOS que
\* empata en t_restante con el que ejecuta entro a LISTOS en este mismo tick,
\* despues que el: el desempate por t_llegada_listo nunca decide un desalojo
EmpateSoloConRecienLlegado ==
    (pc = "planificador" /\ proceso_en_ejecucion # Ninguno) =>
        \A h \in Rango(cola_listos) :
            todos_procesos[h].t_restante
               = todos_procesos[proceso_en_ejecucion].t_restante
            => /\ todos_procesos[h].t_llegada_listo = reloj
               /\ todos_procesos[proceso_en_ejecucion].t_llegada_listo < reloj

\* el planificador esta por correr con la CPU ocupada y un proceso de LISTOS
\* que empata en t_restante con el que ejecuta
HayEmpateDeRestante ==
    /\ pc = "planificador" /\ proceso_en_ejecucion # Ninguno
    /\ \E h \in Rango(cola_listos) :
          todos_procesos[h].t_restante
             = todos_procesos[proceso_en_ejecucion].t_restante

(***************************************************************************)
(* El servicio de CPU y la terminacion                                     *)
(***************************************************************************)

\* la fase 1 del tick: servicio de CPU
PasoDeServicio == pc = "reposo" /\ pc' = "llegadas"

\* el motor ya esta construido (las posiciones de todos_procesos son fijas)
Construido == pc \notin {"sin_simulador", "sin_procesos", "preparar_colas"}

\* C33 (servicio de CPU): en cada tick exactamente el proceso que estaba en
\* ejecucion al empezar el tick ve descontado su t_restante, en exactamente 1;
\* el t_restante de todos los demas (NUEVO, L/S, LISTO, TERMINADO, y los
\* despachados, intercambiados o desalojados durante el tick) no cambia.
C33_ServicioSoloAlQueEjecuta ==
    [][ Construido =>
          \A h \in DOMAIN todos_procesos :
              todos_procesos'[h].t_restante =
                  IF PasoDeServicio /\ h = proceso_en_ejecucion
                  THEN todos_procesos[h].t_restante - 1
                  ELSE todos_procesos[h].t_restante ]_vars

\* testigo de C33: la fase de servicio acaba de descontar al que ejecuta, que
\* sigue en CPU a medio servir, mientras hay en LISTOS un proceso a medio
\* servir (desalojado antes), otro sin servir, y un proceso ya terminado
C33_Testigo ==
    /\ pc = "llegadas"
    /\ proceso_en_ejecucion # Ninguno
    /\ todos_procesos[proceso_en_ejecucion].t_restante > 0
    /\ todos_procesos[proceso_en_ejecucion].t_restante
          < todos_procesos[proceso_en_ejecucion].t_irrupcion
    /\ \E h \in Rango(cola_listos) :
          /\ todos_procesos[h].t_restante < todos_procesos[h].t_irrupcion
          /\ todos_procesos[h].t_primera_ejecucion # SinFijar
    /\ \E h \in Rango(cola_listos) :
          todos_procesos[h].t_restante = todos_procesos[h].t_irrupcion
    /\ Len(procesos_terminados) > 0

\* el proceso en ejecucion recibe en este paso su ultima unidad de servicio
UltimaUnidad(h) ==
    /\ PasoDeServicio
    /\ h = proceso_en_ejecucion
    /\ todos_procesos[h].t_restante = 1

\* C34 (terminacion): cuando el t_restante del proceso en ejecucion llega a 0
\* en la fase de servicio del tick t, en ese mismo tick pasa a TERMINADO con
\* t_fin = t + 1, su particion queda libre y la CPU se libera; nunca vuelve a
\* estar LISTO ni en EJECUCION, su t_fin no cambia mas, y ningun proceso pasa
\* a TERMINADO de otra manera.
C34_Terminacion ==
    [][ Construido =>
          \A h \in DOMAIN todos_procesos :
              /\ UltimaUnidad(h) =>
                    LET k == todos_procesos[h].id_particion
                    IN  /\ todos_procesos'[h] =
                              [todos_procesos[h] EXCEPT
                                  !.t_restante = 0,
                                  !.estado = "TERMINADO",
                                  !.t_fin = reloj' + 1,
                                  !.id_particion = SinParticion]
                        /\ proceso_asignado[k] = h
                        /\ proceso_asignado' = [proceso_asignado EXCEPT ![k] = Ninguno]
                        /\ proceso_en_ejecucion' = Ninguno
                        /\ procesos_terminados' = Append(procesos_terminados, h)
              /\ todos_procesos[h].estado = "TERMINADO" =>
                    /\ todos_procesos'[h] = todos_procesos[h]
                    /\ h \notin Rango(cola_listos')
                    /\ h \notin Rango(cola_listos_suspendidos')
                    /\ h # proceso_en_ejecucion'
                    /\ h \in Rango(procesos_terminados')
              /\ (\/ todos_procesos'[h].estado = "TERMINADO"
                      /\ todos_procesos[h].estado # "TERMINADO"
                  \/ todos_procesos'[h].t_fin # todos_procesos[h].t_fin
                  \/ Veces(procesos_terminados', h) # Veces(procesos_terminados, h))
                    => UltimaUnidad(h) ]_vars

\* testigo de C34: la fase de servicio del tick acaba de terminar a un proceso
\* (t_fin = reloj + 1, particion libre, CPU libre) habiendo otro terminado
\* antes, con un t_fin anterior, y un proceso esperando en LISTOS
C34_Testigo ==
    /\ pc = "llegadas"
    /\ proceso_en_ejecucion = Ninguno
    /\ Len(cola_listos) > 0
    /\ Len(eventos) = 1 /\ eventos[1].tipo = "Termina"
    /\ LET h == eventos[1].procesos[1]
       IN  /\ todos_procesos[h].estado = "TERMINADO"
           /\ todos_procesos[h].t_fin = reloj + 1
           /\ todos_procesos[h].t_restante = 0
           /\ proceso_asignado[eventos[1].particion] = Ninguno
           /\ \E g \in Rango(procesos_terminados) :
                 /\ g # h
                 /\ todos_procesos[g].t_fin < reloj + 1

(***************************************************************************)
(* El ciclo de vida                                                        *)
(***************************************************************************)

\* las transiciones del ciclo de vida NUEVO -> L/S -> LISTO <-> EJECUCION ->
\* TERMINADO, con L/S <-> LISTO por swap
TransicionesDelCiclo ==
    { <<"NUEVO", "L/S">>, <<"L/S", "LISTO">>, <<"LISTO", "EJECUCION">>,
      <<"EJECUCION", "LISTO">>, <<"LISTO", "L/S">>, <<"EJECUCION", "TERMINADO">> }

\* el swap que saca de memoria al proceso que esta en la CPU
SwapDelQueEjecuta == <<"EJECUCION", "L/S">>

\* todo cambio de estado de un paso esta en el conjunto T
CambiosEn(T) ==
    Construido =>
        \A h \in DOMAIN todos_procesos :
            todos_procesos'[h].estado # todos_procesos[h].estado =>
                <<todos_procesos[h].estado, todos_procesos'[h].estado>> \in T

\* C35 (ciclo de vida), tal como esta enunciada: cada cambio de estado de un
\* proceso es una de las transiciones NUEVO->L/S, L/S->LISTO, LISTO->EJECUCION,
\* EJECUCION->LISTO, LISTO->L/S y EJECUCION->TERMINADO (encadenadas dentro de
\* un tick), y a TERMINADO solo se entra desde EJECUCION.
C35_CicloDeVida == [][CambiosEn(TransicionesDelCiclo)]_vars

\* C35 (ciclo de vida), enmendada: a esas seis transiciones se agrega
\* EJECUCION->L/S, la del swap cuya victima es el proceso en ejecucion; a
\* TERMINADO solo se entra desde EJECUCION, y de TERMINADO no se sale.
C35_CicloDeVidaConSwapDeCPU ==
    [][CambiosEn(TransicionesDelCiclo \cup {SwapDelQueEjecuta})]_vars

\* testigo de C35: acaba de hacerse un swap cuya victima era el proceso en
\* ejecucion (hay tres en LISTOS y la CPU quedo libre): paso de EJECUCION a
\* L/S sin pasar por LISTO
C35_Testigo ==
    /\ pc = "admision"
    /\ Len(eventos) > 0
    /\ UltimoEvento.tipo = "Swap"
    /\ proceso_en_ejecucion = Ninguno
    /\ Len(cola_listos) = GDMMemoria
    /\ todos_procesos[UltimoEvento.procesos[1]].estado = "L/S"
    /\ todos_procesos[UltimoEvento.procesos[1]].t_primera_ejecucion # SinFijar

\* el proceso h entra a LISTO en este paso
EntraAListo(h) ==
    /\ todos_procesos[h].estado # "LISTO"
    /\ todos_procesos'[h].estado = "LISTO"

\* C36 (t_llegada_listo): para todo proceso LISTO, t_llegada_listo es el tick
\* de su entrada mas reciente a LISTO: se fija en el reloj actual en la
\* admision, en la entrada por swap y en el desalojo, y no cambia en ningun
\* otro momento.
C36_LlegadaAListo ==
    [][ Construido =>
          \A h \in DOMAIN todos_procesos :
              /\ EntraAListo(h) =>
                    /\ todos_procesos'[h].t_llegada_listo = reloj
                    /\ reloj' = reloj
                    /\ \/ AgregaEvento("Admision") /\ Entrante = h
                       \/ AgregaEvento("Swap") /\ Entrante = h
                       \/ /\ PasoDelPlanificador
                          /\ proceso_en_ejecucion = h
                          /\ eventos_del_tick'[Len(eventos_del_tick')].tipo = "Desalojo"
              /\ ~EntraAListo(h) =>
                    todos_procesos'[h].t_llegada_listo
                       = todos_procesos[h].t_llegada_listo ]_vars

\* testigo de C36: el tick cerro con un desalojo; el desalojado, que habia
\* entrado a LISTO en un tick anterior, tiene ahora t_llegada_listo = reloj,
\* y otro proceso de LISTOS conserva un t_llegada_listo anterior
C36_Testigo ==
    /\ EnReposo /\ reloj >= 1
    /\ Len(eventos_del_tick) > 0
    /\ LET e == eventos_del_tick[Len(eventos_del_tick)]
       IN  /\ e.tipo = "Desalojo"
           /\ e.procesos[1] \in Rango(cola_listos)
           /\ todos_procesos[e.procesos[1]].t_llegada_listo = reloj
           /\ todos_procesos[e.procesos[1]].t_primera_ejecucion < reloj
           /\ \E g \in Rango(cola_listos) :
                 todos_procesos[g].t_llegada_listo < reloj

(***************************************************************************)
(* El orden de las fases del tick                                          *)
(***************************************************************************)

\* el proceso h cabe en la particion de usuario k, que esta libre
CabeEnLibre(h, k) ==
    /\ proceso_asignado[k] = Ninguno
    /\ todos_procesos[h].tamano <= TamanoParticion(k)

\* C37 (orden de las fases): como las fases del tick corren en el orden fijo
\* servicio -> llegadas -> admision/swap -> despacho, al final de cada tick (y
\* tras la construccion) ningun proceso en L/S cabe en una particion libre,
\* contando las particiones liberadas por una terminacion del mismo tick y
\* los procesos que arribaron en el mismo tick.
C37_NingunSuspendidoCabeEnLibre ==
    EnReposo =>
        \A h \in Rango(cola_listos_suspendidos) :
            \A k \in 1 .. 3 : ~CabeEnLibre(h, k)

\* testigo de C37: en este tick termino un proceso, la particion que libero
\* la ocupo un proceso arribado en el mismo tick, y al cerrar el tick queda
\* una particion libre y en L/S un proceso que no cabe en ella
C37_Testigo ==
    /\ EnReposo /\ reloj >= 1
    /\ Len(cola_listos_suspendidos) > 0
    /\ \E k \in 1 .. 3 : proceso_asignado[k] = Ninguno
    /\ \E i, j \in 1 .. Len(eventos_del_tick) :
          /\ i < j
          /\ eventos_del_tick[i].tipo = "Termina"
          /\ eventos_del_tick[j].tipo = "Admision"
          /\ eventos_del_tick[j].particion = eventos_del_tick[i].particion
          /\ todos_procesos[eventos_del_tick[j].procesos[1]].t_arribo = reloj

\* los procesos residentes: los de LISTOS y el que esta en la CPU
ProcesosResidentes == Rango(PosiblesVictimas(cola_listos, proceso_en_ejecucion))

\* el suspendido c cabe en la particion que ocupa el residente v
CabeEnLaDe(c, v) ==
    TamanoParticion(todos_procesos[v].id_particion) >= todos_procesos[c].tamano

\* sacar a v para que entre c seria un swap provechoso
SwapProvechoso(c, v) ==
    /\ CabeEnLaDe(c, v)
    /\ todos_procesos[c].t_restante < todos_procesos[v].t_restante

\* C38 (ningun swap pendiente): al final de todo tick con tres procesos
\* residentes no hay un par formado por un proceso c en L/S y un residente v
\* (LISTO o en EJECUCION) tal que la particion de v tenga capacidad >= tamano
\* de c y t_restante de c < t_restante de v: no queda sin hacer ningun swap
\* provechoso.
C38_NingunSwapPendiente ==
    (EnReposo /\ Residentes = GDMMemoria) =>
        \A c \in Rango(cola_listos_suspendidos) :
            \A v \in ProcesosResidentes : ~SwapProvechoso(c, v)

\* testigo de C38: el tick cierra con tres residentes y con procesos en L/S:
\* uno que cabe en la particion de un residente pero no es mas corto que el,
\* y otro mas corto que un residente pero que no cabe en su particion
C38_Testigo ==
    /\ EnReposo /\ reloj >= 1
    /\ Residentes = GDMMemoria
    /\ \E c \in Rango(cola_listos_suspendidos) : \E v \in ProcesosResidentes :
          /\ CabeEnLaDe(c, v)
          /\ todos_procesos[c].t_restante >= todos_procesos[v].t_restante
    /\ \E c \in Rango(cola_listos_suspendidos) : \E v \in ProcesosResidentes :
          /\ ~CabeEnLaDe(c, v)
          /\ todos_procesos[c].t_restante < todos_procesos[v].t_restante
          /\ CabeEnAlgunaParticion(todos_procesos, c)

(***************************************************************************)
(* La estabilidad del fin                                                  *)
(***************************************************************************)

\* ningun proceso esta LISTO ni en EJECUCION
NadieEnMemoria ==
    /\ proceso_en_ejecucion = Ninguno
    /\ Len(cola_listos) = 0
    /\ \A h \in DOMAIN todos_procesos : ~Residente(h)

\* C39 (el fin es estable): IsFinished() es estable: una vez verdadero sigue
\* verdadero tras cualquier cantidad de llamadas mas a tick() (ningun proceso
\* vuelve a estar LISTO ni en EJECUCION).  Paso a paso: desde un estado
\* finalizado del motor construido, cada fase de cada tick posterior deja al
\* motor finalizado y sin procesos en memoria.
C39_FinEstable ==
    [][ (Construido /\ Finalizada) => (Finalizada' /\ NadieEnMemoria') ]_vars

\* testigo de C39: el motor esta finalizado entre dos ticks, con procesos
\* terminados y un proceso que no cabe en L/S, y ya se llamo a tick() al
\* menos dos veces despues de la ultima terminacion
C39_Testigo ==
    /\ EnReposo
    /\ Finalizada
    /\ Len(procesos_terminados) > 0
    /\ Len(cola_listos_suspendidos) > 0
    /\ \A h \in Rango(procesos_terminados) : todos_procesos[h].t_fin < reloj

(***************************************************************************)
(* Las metricas del proceso que nadie interrumpe                           *)
(***************************************************************************)

\* el proceso h termino, fue despachado en el tick de su arribo y desde
\* entonces no volvio a entrar a LISTO: ni lo desalojaron ni lo sacaron por
\* swap (toda entrada a LISTO renueva t_llegada_listo con el reloj)
TerminoSinInterrupcion(h) ==
    /\ todos_procesos[h].estado = "TERMINADO"
    /\ todos_procesos[h].t_primera_ejecucion = todos_procesos[h].t_arribo
    /\ todos_procesos[h].t_llegada_listo = todos_procesos[h].t_arribo

\* C40 (sin espera si no lo interrumpen): un proceso despachado en el tick
\* igual a su t_arribo y nunca desalojado ni sacado por swap termina con
\* t_fin = t_arribo + t_irrupcion; es decir, su Espera informada
\* W = T - t_irrupcion es 0 y su Retorno es igual a su t_irrupcion.
C40_SinEsperaSiNoLoInterrumpen ==
    Construido =>
        \A h \in DOMAIN todos_procesos :
            TerminoSinInterrupcion(h) =>
                /\ todos_procesos[h].t_fin
                      = todos_procesos[h].t_arribo + todos_procesos[h].t_irrupcion
                /\ FilaReporte(todos_procesos, h).espera = 0
                /\ FilaReporte(todos_procesos, h).retorno
                      = todos_procesos[h].t_irrupcion

\* lo que el motor hace en ese caso: el proceso recibe su ultima unidad en el
\* tick t_arribo + t_irrupcion y t_fin = reloj + 1 le suma una unidad mas, de
\* modo que la Espera informada es 1
DesfaseDeUnTick ==
    Construido =>
        \A h \in DOMAIN todos_procesos :
            TerminoSinInterrupcion(h) =>
                /\ todos_procesos[h].t_fin
                      = todos_procesos[h].t_arribo + todos_procesos[h].t_irrupcion + 1
                /\ FilaReporte(todos_procesos, h).espera = 1

\* hay un proceso terminado sin interrupcion, de mas de una unidad de
\* servicio, que arribo despues del instante cero
HayTerminadoSinInterrupcion ==
    /\ Construido
    /\ \E h \in DOMAIN todos_procesos :
          /\ TerminoSinInterrupcion(h)
          /\ todos_procesos[h].t_arribo > 0
          /\ todos_procesos[h].t_irrupcion > 1

============================================================================
